---- MODULE Spec2Model ----
(***************************************************************************)
(* QuickMock: the mock serving engine (src/src/server.ts), its in-memory   *)
(* record store (src/src/store.ts), the instance manager                   *)
(* (src/src/manager.ts), the persisted config store (src/src/project.ts)   *)
(* and the override / profile layer of the management API                  *)
(* (src/src/dashboard.ts).                                                 *)
(***************************************************************************)
EXTENDS Integers, Sequences, FiniteSets, TLC

(***************************************************************************)
(* Bounds of the model.                                                    *)
(***************************************************************************)
MaxServers == 3
MaxUuid == 3
\* UUIDs drawn in a run that seeds five records and resets them.
MaxSeedUuid == 15
\* UUIDs drawn in a run of record writes and resets on two seeded records.
MaxStoreUuid == 4
\* record() and importRecordings() calls made in a run.
MaxRecCalls == 2
MaxListeners == 3
MaxNth == 4

(***************************************************************************)
(* JSON values.  A JS number and a JS string are different values even     *)
(* when they print the same, so every scalar carries its type.             *)
(***************************************************************************)
Undefined == [undef |-> TRUE]
Null == [null |-> TRUE]
Num(n) == [num |-> n]
Str(s) == [str |-> s]
Bool(b) == [bool |-> b]

IsNum(v) == DOMAIN v = {"num"}
IsStr(v) == DOMAIN v = {"str"}
IsBool(v) == DOMAIN v = {"bool"}
\* v === undefined || v === null: what ?? and ?. skip over.
Nullish(v) == v = Undefined \/ v = Null
\* A JSON object (a function from keys to values) and not a scalar.
ScalarTags == {"undef", "null", "num", "str", "bool"}
IsObject(v) == (DOMAIN v) \cap ScalarTags = {}

\* The decimal spelling of the small naturals the model uses.
Digits == <<"0", "1", "2", "3", "4", "5">>
IsNumeric(s) == \E i \in 1..Len(Digits) : Digits[i] = s
ParseInt(s) == (CHOOSE i \in 1..Len(Digits) : Digits[i] = s) - 1

\* String(val) of a scalar.
StringOf(v) ==
    IF IsNum(v) THEN Digits[v.num + 1]
    ELSE IF IsBool(v) THEN (IF v.bool THEN "true" ELSE "false")
    ELSE v.str

\* crypto.randomUUID(): the n-th token drawn in a run.
UuidStr ==
    <<"u1", "u2", "u3", "u4", "u5", "u6", "u7", "u8", "u9", "u10",
      "u11", "u12", "u13", "u14", "u15", "u16", "u17", "u18", "u19", "u20">>
Uuid(n) == IF n \in 1..Len(UuidStr) THEN UuidStr[n] ELSE "u0"

\* item[field] of a JSON record (a function from field names to values).
Field(item, f) == IF f \in DOMAIN item THEN item[f] ELSE Undefined

\* { ...a, ...b }
Spread(a, b) ==
    [f \in (DOMAIN a) \cup (DOMAIN b) |-> IF f \in DOMAIN b THEN b[f] ELSE a[f]]

\* { ...a, [f]: v }
WithField(a, f, v) == Spread(a, [g \in {f} |-> v])

EmptyRecord == [f \in {} |-> Undefined]

(***************************************************************************)
(* store.ts                                                                *)
(***************************************************************************)

\* coerceId(id, original): Number(id) || id when the original was a number.
\* Number(id) is NaN for a non-numeric string and 0 for "0", both falsy.
\* Strings that Number() reads as a number String() spells otherwise.
Respelled == [s \in {"01"} |-> 1]
\* Number(s), with 0 standing for NaN as well.
NumberOrZero(s) ==
    IF IsNumeric(s) THEN ParseInt(s)
    ELSE IF s \in DOMAIN Respelled THEN Respelled[s]
    ELSE 0
coerceId(id, original) ==
    IF IsNum(original) /\ NumberOrZero(id) # 0
    THEN Num(NumberOrZero(id))
    ELSE Str(id)

\* Does getIdValue / create draw a UUID for this item?
NeedsUuid(item, idField) == Nullish(Field(item, idField))

\* getIdValue(item, idField), the UUID being the next one drawn.
getIdValue(item, idField, uuid) ==
    IF NeedsUuid(item, idField) THEN uuid ELSE StringOf(Field(item, idField))

\* The number of UUIDs that seeding `items` draws.
RECURSIVE UuidsNeeded(_, _)
UuidsNeeded(items, idField) ==
    IF items = <<>> THEN 0
    ELSE (IF NeedsUuid(Head(items), idField) THEN 1 ELSE 0)
         + UuidsNeeded(Tail(items), idField)

\* The loop of seed() and of reset(): items are set in order into the
\* collection, a later item with the same key replacing an earlier one.
RECURSIVE SeedCollection(_, _, _, _)
SeedCollection(items, idField, coll, ctr) ==
    IF items = <<>> THEN coll
    ELSE LET item == Head(items)
             id == getIdValue(item, idField, Uuid(ctr + 1))
             used == IF NeedsUuid(item, idField) THEN 1 ELSE 0
             rec == WithField(item, idField, coerceId(id, Field(item, idField)))
         IN  SeedCollection(Tail(items), idField,
                            Spread(coll, [k \in {id} |-> rec]), ctr + used)

EmptyCollection == [k \in {} |-> EmptyRecord]
EmptyStore == [data |-> [n \in {} |-> EmptyCollection],
               meta |-> [n \in {} |-> [idField |-> "id", seedData |-> <<>>]],
               order |-> <<>>]

\* createStore()
createStore == EmptyStore

\* seed(name, idField, items)
StoreSeed(st, name, idField, items, ctr) ==
    [data |-> Spread(st.data,
                     [n \in {name} |-> SeedCollection(items, idField, EmptyCollection, ctr)]),
     meta |-> Spread(st.meta,
                     [n \in {name} |-> [idField |-> idField, seedData |-> items]]),
     order |-> IF name \in DOMAIN st.meta THEN st.order ELSE Append(st.order, name)]

\* get(name, id)
StoreHas(st, name, id) == name \in DOMAIN st.data /\ id \in DOMAIN st.data[name]
StoreGet(st, name, id) == IF StoreHas(st, name, id) THEN st.data[name][id] ELSE Undefined

\* list(name).total without filters
StoreTotal(st, name) ==
    IF name \in DOMAIN st.data THEN Cardinality(DOMAIN st.data[name]) ELSE 0

StorePut(st, name, id, item) ==
    [st EXCEPT !.data = Spread(st.data,
                               [n \in {name} |-> Spread(st.data[name], [k \in {id} |-> item])])]

\* create(name, incoming): the stored item; throws when the collection is unknown.
CreateThrows(st, name) == name \notin DOMAIN st.data
CreateId(st, name, incoming, uuid) ==
    getIdValue(incoming, st.meta[name].idField, uuid)
CreateItem(st, name, incoming, uuid) ==
    LET idField == st.meta[name].idField
        id == CreateId(st, name, incoming, uuid)
    IN  WithField(incoming, idField, coerceId(id, Field(incoming, idField)))
StoreCreate(st, name, incoming, uuid) ==
    StorePut(st, name, CreateId(st, name, incoming, uuid),
             CreateItem(st, name, incoming, uuid))

\* update(name, id, incoming): full replace, null when the id is unknown.
UpdateItem(st, name, id, incoming) ==
    LET idField == st.meta[name].idField
    IN  WithField(incoming, idField, coerceId(id, Field(incoming, idField)))
\* An update that files the item under the id of the body.
StoreUpdateRekey(st, name, id, incoming) ==
    IF ~StoreHas(st, name, id) THEN st
    ELSE StorePut([st EXCEPT !.data[name] =
                      [k \in (DOMAIN st.data[name]) \ {id} |-> st.data[name][k]]],
                  name,
                  getIdValue(incoming, st.meta[name].idField, id),
                  UpdateItem(st, name, id, incoming))
StoreUpdate(st, name, id, incoming) ==
    IF ~StoreHas(st, name, id) THEN st
    ELSE StorePut(st, name, id, UpdateItem(st, name, id, incoming))

\* patch(name, id, incoming): shallow merge, null when the id is unknown.
PatchItem(st, name, id, incoming) ==
    LET idField == st.meta[name].idField
        existing == st.data[name][id]
    IN  WithField(Spread(existing, incoming), idField,
                  coerceId(id, Field(existing, idField)))
\* A patch that creates the record when the id is unknown.
StorePatchUpsert(st, name, id, incoming) ==
    IF ~StoreHas(st, name, id)
    THEN StorePut(st, name, id, WithField(incoming, st.meta[name].idField, Str(id)))
    ELSE StorePut(st, name, id, PatchItem(st, name, id, incoming))
StorePatch(st, name, id, incoming) ==
    IF ~StoreHas(st, name, id) THEN st
    ELSE StorePut(st, name, id, PatchItem(st, name, id, incoming))

\* remove(name, id)
StoreRemove(st, name, id) ==
    IF ~StoreHas(st, name, id) THEN st
    ELSE [st EXCEPT !.data[name] =
             [k \in (DOMAIN st.data[name]) \ {id} |-> st.data[name][k]]]

\* reset(): every collection known to meta is rebuilt from its seed data, in
\* the insertion order of meta's keys (st.order).
RECURSIVE ResetUuids(_, _)
ResetUuids(st, order) ==
    IF order = <<>> THEN 0
    ELSE UuidsNeeded(st.meta[Head(order)].seedData, st.meta[Head(order)].idField)
         + ResetUuids(st, Tail(order))

\* A reset that rebuilds the first collection only.
ResetLoopHead(st, order, ctr) ==
    IF order = <<>> THEN st
    ELSE LET info == st.meta[Head(order)]
         IN  [st EXCEPT !.data =
                 Spread(st.data,
                        [n \in {Head(order)} |->
                            SeedCollection(info.seedData, info.idField, EmptyCollection, ctr)])]
RECURSIVE ResetLoop(_, _, _)
ResetLoop(st, order, ctr) ==
    IF order = <<>> THEN st
    ELSE LET name == Head(order)
             info == st.meta[name]
             coll == SeedCollection(info.seedData, info.idField, EmptyCollection, ctr)
             used == UuidsNeeded(info.seedData, info.idField)
         IN  ResetLoop([st EXCEPT !.data = Spread(st.data, [n \in {name} |-> coll])],
                       Tail(order), ctr + used)

StoreResetUuids(st) == ResetUuids(st, st.order)
\* A reset that leaves the collections as they are.
StoreResetStale(st, ctr) == st
StoreReset(st, ctr) == ResetLoop(st, st.order, ctr)


(***************************************************************************)
(* template.ts (the part seeding uses): a string leaf is run through       *)
(* processString and the result coerced to boolean / number when it looks  *)
(* like one.                                                               *)
(***************************************************************************)
FakerIdToken == "{{faker.id}}"

\* processString(str, ctx) for the tokens the model's templates use: the
\* token {{faker.id}} is replaced by a fresh UUID, any other text is kept.
DrawsUuid(v) == IsStr(v) /\ v.str = FakerIdToken
processString(str, uuid) == IF str = FakerIdToken THEN uuid ELSE str

\* The auto-coercion of processTemplate's string branch.
CoerceLeaf(result) ==
    IF result = "true" THEN Bool(TRUE)
    ELSE IF result = "false" THEN Bool(FALSE)
    ELSE IF IsNumeric(result) THEN Num(ParseInt(result))
    ELSE Str(result)

RECURSIVE ProcessFields(_, _, _, _)
ProcessFields(data, todo, out, ctr) ==
    IF todo = {} THEN [out |-> out, ctr |-> ctr]
    ELSE LET f == CHOOSE x \in todo : TRUE
             v == data[f]
             w == IF IsStr(v) THEN CoerceLeaf(processString(v.str, Uuid(ctr + 1))) ELSE v
         IN  ProcessFields(data, todo \ {f}, WithField(out, f, w),
                           ctr + (IF DrawsUuid(v) THEN 1 ELSE 0))

\* processTemplate(data, ctx): [out, ctr] with ctr the UUID counter afterwards.
processTemplate(data, ctr) ==
    IF IsStr(data)
    THEN [out |-> CoerceLeaf(processString(data.str, Uuid(ctr + 1))),
          ctr |-> ctr + (IF DrawsUuid(data) THEN 1 ELSE 0)]
    ELSE IF IsObject(data) THEN ProcessFields(data, DOMAIN data, EmptyRecord, ctr)
    ELSE [out |-> data, ctr |-> ctr]

(***************************************************************************)
(* server.ts: configuration                                                *)
(***************************************************************************)

\* String.prototype.toUpperCase on the method names the model uses.
Upper(m) ==
    IF m = "get" THEN "GET" ELSE IF m = "post" THEN "POST" ELSE m

\* a || b on numbers: 0 (and undefined, modelled as 0) is falsy.
OrElse(a, b) == IF a = 0 THEN b ELSE a

\* a ?? b ?? c ?? d
RECURSIVE Coalesce(_)
Coalesce(vs) ==
    IF Len(vs) = 1 THEN vs[1]
    ELSE IF Nullish(vs[1]) THEN Coalesce(Tail(vs)) ELSE vs[1]

\* JS truthiness of a JSON value.
Truthy(v) ==
    IF Nullish(v) THEN FALSE
    ELSE IF IsBool(v) THEN v.bool
    ELSE IF IsNum(v) THEN v.num # 0
    ELSE IF IsStr(v) THEN v.str # ""
    ELSE TRUE

\* parseRouteConfigs(raw): sequence and rules are not copied to the Route.
parseRouteConfig(r) ==
    [method      |-> Upper(IF r.method = "" THEN "GET" ELSE r.method),
     path        |-> r.path,
     status      |-> OrElse(r.status, 200),
     response    |-> r.response,
     responses   |-> r.responses,
     delay       |-> r.delay,
     error       |-> r.error,
     errorStatus |-> r.errorStatus]
parseRouteConfigs(raw) == [i \in 1..Len(raw) |-> parseRouteConfig(raw[i])]

\* The seed loop of seedResources for one resource: `count` templates are
\* processed, the results that are objects are kept.
RECURSIVE SeedItems(_, _, _, _)
SeedItems(seed, count, items, ctr) ==
    IF count = 0 THEN [items |-> items, ctr |-> ctr]
    ELSE LET p == processTemplate(seed, ctr)
         IN  SeedItems(seed, count - 1,
                       IF IsObject(p.out) THEN Append(items, p.out) ELSE items,
                       p.ctr)

DefaultCount == 5
ResourceIdField(cfg) == IF Nullish(cfg.idField) THEN "id" ELSE cfg.idField.str
ResourceCount(cfg) == IF Nullish(cfg.count) THEN DefaultCount ELSE cfg.count.num

ResourceEntry(cfg) ==
    [name        |-> cfg.name,
     basePath    |-> cfg.basePath,
     idField     |-> ResourceIdField(cfg),
     delay       |-> cfg.delay,
     error       |-> cfg.error,
     errorStatus |-> cfg.errorStatus]

\* seedResources(resourceDefs, store): [store, entries, ctr].
RECURSIVE seedResources(_, _, _, _)
seedResources(defs, st, entries, ctr) ==
    IF defs = <<>> THEN [store |-> st, entries |-> entries, ctr |-> ctr]
    ELSE LET cfg == Head(defs)
             idField == ResourceIdField(cfg)
             gen == SeedItems(cfg.seed, ResourceCount(cfg), <<>>, ctr)
             seeded == StoreSeed(st, cfg.name, idField, gen.items, gen.ctr)
         IN  seedResources(Tail(defs), seeded,
                           Append(entries, ResourceEntry(cfg)),
                           gen.ctr + UuidsNeeded(gen.items, idField))

\* applyConfig(cfg) on an instance whose store is st:
\* [currentConfig, routes, resources, store, ctr].
applyConfig(cfg, st, ctr) ==
    LET seeded == seedResources(cfg.resources, st, <<>>, ctr)
    IN  [currentConfig |-> cfg,
         routes        |-> parseRouteConfigs(cfg.routes),
         resources     |-> seeded.entries,
         store         |-> seeded.store,
         ctr           |-> seeded.ctr]


(***************************************************************************)
(* server.ts: matching.  A path is the sequence of its non-empty segments. *)
(***************************************************************************)
ParamNames == [x \in {":id", ":name"} |-> IF x = ":id" THEN "id" ELSE "name"]
\* rSeg.startsWith(':') and rSeg.slice(1)
IsParam(seg) == seg \in DOMAIN ParamNames

\* decodeURIComponent on the segments the model uses: "%41" decodes to "A",
\* a lone "%" is malformed and throws URIError, plain text is unchanged.
DecodeThrows(seg) == seg = "%"
Decode(seg) == IF seg = "%41" THEN "A" ELSE seg

\* The segment loop of matchRoute: "ok", "no", or "throw" when a :param
\* segment is reached whose request segment cannot be decoded.
RECURSIVE MatchSegs(_, _, _)
MatchSegs(rSegs, pSegs, i) ==
    IF i > Len(rSegs) THEN "ok"
    ELSE IF IsParam(rSegs[i])
         THEN (IF DecodeThrows(pSegs[i]) THEN "throw" ELSE MatchSegs(rSegs, pSegs, i + 1))
         ELSE IF rSegs[i] # pSegs[i] THEN "no"
         ELSE MatchSegs(rSegs, pSegs, i + 1)

RouteTry(route, method, path) ==
    IF route.method # method /\ route.method # "*" THEN "no"
    ELSE IF Len(route.path) # Len(path) THEN "no"
    ELSE MatchSegs(route.path, path, 1)

\* matchRoute(method, pathname): the 1-based position of the first route
\* that matches, 0 for null, -1 when matching throws.
RECURSIVE MatchRouteFrom(_, _, _, _)
MatchRouteFrom(rs, method, path, i) ==
    IF i > Len(rs) THEN 0
    ELSE LET t == RouteTry(rs[i], method, path)
         IN  IF t = "ok" THEN i
             ELSE IF t = "throw" THEN -1
             ELSE MatchRouteFrom(rs, method, path, i + 1)
\* A matcher that lets the last matching route win.
MatchRouteLast(rs, method, path) ==
    IF \E i \in 1..Len(rs) : RouteTry(rs[i], method, path) = "throw" THEN -1
    ELSE IF \E i \in 1..Len(rs) : RouteTry(rs[i], method, path) = "ok"
    THEN CHOOSE i \in 1..Len(rs) :
            /\ RouteTry(rs[i], method, path) = "ok"
            /\ \A j \in (i + 1)..Len(rs) : RouteTry(rs[j], method, path) # "ok"
    ELSE 0

matchRoute(rs, method, path) == MatchRouteFrom(rs, method, path, 1)

\* The params object of a matched route.
RouteParams(route, path) ==
    [n \in {ParamNames[route.path[i]] : i \in {j \in 1..Len(route.path) : IsParam(route.path[j])}}
        |-> Decode(path[CHOOSE i \in 1..Len(route.path) :
                          /\ IsParam(route.path[i]) /\ ParamNames[route.path[i]] = n
                          /\ \A k \in (i + 1)..Len(route.path) :
                                ~(IsParam(route.path[k]) /\ ParamNames[route.path[k]] = n)])]

IsPrefix(base, path) ==
    /\ Len(base) <= Len(path)
    /\ \A i \in 1..Len(base) : base[i] = path[i]

\* One resource of matchResource's loop: "collection", "item", "throw"
\* (the item id cannot be decoded) or "no".
ResourceTry(resource, method, path) ==
    IF /\ Len(path) = Len(resource.basePath)
       /\ IsPrefix(resource.basePath, path)
       /\ method \in {"GET", "POST"}
    THEN "collection"
    ELSE IF /\ Len(path) = Len(resource.basePath) + 1
            /\ IsPrefix(resource.basePath, path)
            /\ method \in {"GET", "PUT", "PATCH", "DELETE"}
         THEN (IF DecodeThrows(path[Len(path)]) THEN "throw" ELSE "item")
         ELSE "no"

\* matchResource(method, pathname): the 1-based position of the first
\* resource that matches, 0 for null, -1 when matching throws.
RECURSIVE MatchResourceFrom(_, _, _, _)
MatchResourceFrom(res, method, path, i) ==
    IF i > Len(res) THEN 0
    ELSE LET t == ResourceTry(res[i], method, path)
         IN  IF t = "throw" THEN -1
             ELSE IF t # "no" THEN i
             ELSE MatchResourceFrom(res, method, path, i + 1)
matchResource(res, method, path) == MatchResourceFrom(res, method, path, 1)

\* Map.get of an override map, and override?.field
OverrideGet(map, key) == IF key \in DOMAIN map THEN map[key] ELSE Undefined
OvField(ov, f) == IF ov = Undefined THEN Undefined ELSE Field(ov, f)

(***************************************************************************)
(* server.ts: handleResourceCrud                                           *)
(***************************************************************************)
\* body && typeof body === 'object' && !Array.isArray(body) ? body : {}
Incoming(body) == IF IsObject(body) THEN body ELSE EmptyRecord

\* handleResourceCrud(method, match, body, query) without query filters:
\* [status, store, ctr, crud, threw].
handleResourceCrud(st, method, resource, kind, id, body, ctr) ==
    LET name == resource.name
        incoming == Incoming(body)
        same(status, op) ==
            [status |-> status, store |-> st, ctr |-> ctr, crud |-> op, threw |-> FALSE]
    IN  IF method = "GET" /\ kind = "collection" THEN same(200, "list")
        ELSE IF method = "GET"
        THEN same(IF StoreHas(st, name, id) THEN 200 ELSE 404, "get")
        ELSE IF method = "POST"
        THEN (IF CreateThrows(st, name)
              THEN [status |-> 500, store |-> st, ctr |-> ctr, crud |-> "create", threw |-> TRUE]
              ELSE [status |-> 201,
                    store  |-> StoreCreate(st, name, incoming, Uuid(ctr + 1)),
                    ctr    |-> ctr + (IF NeedsUuid(incoming, st.meta[name].idField) THEN 1 ELSE 0),
                    crud   |-> "create", threw |-> FALSE])
        ELSE IF method = "PUT"
        THEN [status |-> IF StoreHas(st, name, id) THEN 200 ELSE 404,
              store  |-> StoreUpdate(st, name, id, incoming),
              ctr |-> ctr, crud |-> "update", threw |-> FALSE]
        ELSE IF method = "PATCH"
        THEN [status |-> IF StoreHas(st, name, id) THEN 200 ELSE 404,
              store  |-> StorePatch(st, name, id, incoming),
              ctr |-> ctr, crud |-> "patch", threw |-> FALSE]
        ELSE IF method = "DELETE"
        THEN [status |-> IF StoreHas(st, name, id) THEN 204 ELSE 404,
              store  |-> StoreRemove(st, name, id),
              ctr |-> ctr, crud |-> "remove", threw |-> FALSE]
        ELSE same(405, "none")


(***************************************************************************)
(* template.ts: resolve(obj, dotPath).  A dotted path is kept as the       *)
(* sequence of its keys; the paths the model's rules use are listed in     *)
(* DotPaths.                                                               *)
(***************************************************************************)
DotPaths ==
    [k \in {"query.env", "params.id", "body.role", "body.n"} |->
        IF k = "query.env" THEN <<"query", "env">>
        ELSE IF k = "params.id" THEN <<"params", "id">>
        ELSE IF k = "body.role" THEN <<"body", "role">>
        ELSE <<"body", "n">>]

\* The reduce of resolve: undefined as soon as the value at hand is not an
\* object or lacks the key.
RECURSIVE resolve(_, _)
resolve(obj, keys) ==
    IF keys = <<>> THEN obj
    ELSE IF IsObject(obj) THEN resolve(Field(obj, Head(keys)), Tail(keys))
    ELSE Undefined

\* The template context of a request answered by a route.
TemplateContext(params, req) ==
    [params |-> [n \in DOMAIN params |-> Str(params[n])],
     body   |-> IF req.body = Undefined THEN Null ELSE req.body,
     query  |-> [n \in DOMAIN req.query |-> Str(req.query[n])]]

(***************************************************************************)
(* Response modes.  Sequence mode, rules mode and their priority are       *)
(* described by the specification (sections 3 and 4.4) and declared by     *)
(* SequenceStep, RouteRule and Route; the handler code for them is not     *)
(* part of server.ts, whose parseRouteConfigs does not copy the two        *)
(* fields, so they are read from the config the instance holds.            *)
(***************************************************************************)
NoCursors == [i \in {} |-> 0]
CursorGet(cursors, idx) == IF idx \in DOMAIN cursors THEN cursors[idx] ELSE 0
\* The steps of the route with 0-based index idx, <<>> when it has none.
SeqSteps(cfg, idx) == cfg.routes[idx + 1].sequence
\* A reload or restart puts every cursor back to its initial position.
ResetCursors(cursors) == NoCursors
\* A cursor that moves on from a sticky step.
NextCursorUnsticky(steps, c) == IF c < Len(steps) - 1 THEN c + 1 ELSE c

\* The cursor after one request answered from steps[c].
NextCursor(steps, c) ==
    IF steps[c + 1].sticky THEN c
    ELSE IF c < Len(steps) - 1 THEN c + 1
    ELSE c

\* The rules of the route with 0-based index idx, <<>> when it has none.
RouteRules(cfg, idx) == cfg.routes[idx + 1].rules

\* String(value) of what a dotted path resolves to.
Stringify(v) ==
    IF v = Undefined THEN "undefined"
    ELSE IF v = Null THEN "null"
    ELSE IF IsObject(v) THEN "[object Object]"
    ELSE StringOf(v)

\* A rule matches when every key of `when` resolves to a value that
\* stringifies equal to the literal; an absent or empty `when` matches.
RuleMatches(rule, ctx) ==
    \A k \in DOMAIN rule.when : Stringify(resolve(ctx, DotPaths[k])) = rule.when[k]

\* A rule scan that takes the last matching rule.
RECURSIVE LastRule(_, _, _)
LastRule(rules, ctx, i) ==
    IF i > Len(rules) THEN 0
    ELSE IF LastRule(rules, ctx, i + 1) > 0 THEN LastRule(rules, ctx, i + 1)
    ELSE IF RuleMatches(rules[i], ctx) THEN i
    ELSE 0

\* The 1-based position of the first rule from i on that matches, 0 when
\* none does.
RECURSIVE FirstRule(_, _, _)
FirstRule(rules, ctx, i) ==
    IF i > Len(rules) THEN 0
    ELSE IF RuleMatches(rules[i], ctx) THEN i
    ELSE FirstRule(rules, ctx, i + 1)

(***************************************************************************)
(* server.ts: handleRequest.                                               *)
(* S is the instance ([currentConfig, routes, resources, store,            *)
(* routeOverrides, resourceOverrides, cursors, onProxyResponse]), req the  *)
(* request [method, path, body], rnd the value of Math.random() of the     *)
(* error draw in percent, pick the index drawn for `responses`, up whether *)
(* the upstream call of the proxy succeeds, ctr the UUID counter.          *)
(***************************************************************************)
\* What a handler run leaves behind.
Outcome(S, ctr) ==
    [status |-> 0, branch |-> "", store |-> S.store, cursors |-> S.cursors, ctr |-> ctr,
     delay |-> Undefined, delayed |-> FALSE, errorRate |-> Undefined, drew |-> FALSE,
     resolved |-> FALSE, body |-> Undefined, crud |-> "none", logged |-> FALSE,
     proxied |-> FALSE, recorded |-> FALSE, route |-> 0, params |-> EmptyRecord,
     mode |-> "", rule |-> 0, step |-> -1, total |-> -1]

\* The lookup written with || instead of ??: a delay of 0 counts as absent.
FirstTruthy(a, b) == IF Truthy(a) THEN a ELSE b
EffectiveDelayOr(ov, static, cfg) ==
    FirstTruthy(OvField(ov, "delay"), FirstTruthy(static.delay, FirstTruthy(cfg.delay, Num(0))))

\* override?.delay ?? static.delay ?? currentConfig.delay ?? 0
EffectiveDelay(ov, static, cfg) ==
    Coalesce(<<OvField(ov, "delay"), static.delay, cfg.delay, Num(0)>>)
\* override?.error ?? static.error ?? 0
EffectiveError(ov, static) ==
    Coalesce(<<OvField(ov, "error"), static.error, Num(0)>>)
\* errorRate > 0 && Math.random() < errorRate
ErrorInjected(errorRate, rnd) == errorRate.num > 0 /\ rnd < errorRate.num

\* The 503 of a disabled route or resource.
DisabledResponse(S, ctr) ==
    [Outcome(S, ctr) EXCEPT !.status = 503, !.branch = "disabled", !.logged = TRUE]

\* responseData of lines 322-325: one of `responses` when there are any
\* (pick is Math.floor(Math.random() * length) + 1), else `response`.
StaticResponse(route, pick) ==
    IF Len(route.responses) > 0
    THEN route.responses[((pick - 1) % Len(route.responses)) + 1]
    ELSE route.response

\* A mode selection that lets the static responses go before the sequence
\* and the rules.
ResponseModeStaticFirst(rules, steps, route) ==
    IF Len(route.responses) > 0 THEN "responses"
    ELSE IF ~Nullish(route.response) THEN "response"
    ELSE IF rules # <<>> THEN "rules"
    ELSE IF steps # <<>> THEN "sequence"
    ELSE "empty"

\* The response mode of a route (specification, section 4.4): rules, then
\* sequence, then responses, then response, then the empty body.
ResponseMode(rules, steps, route) ==
    IF rules # <<>> THEN "rules"
    ELSE IF steps # <<>> THEN "sequence"
    ELSE IF Len(route.responses) > 0 THEN "responses"
    ELSE IF ~Nullish(route.response) THEN "response"
    ELSE "empty"

\* The response resolver for the route at 1-based position i: the mode, the
\* rule or step that answers, the status, the response before templating
\* and the cursors afterwards.
Resolve(S, req, i, pick) ==
    LET route == S.routes[i]
        routeIdx == i - 1
        rules == RouteRules(S.currentConfig, routeIdx)
        steps == SeqSteps(S.currentConfig, routeIdx)
        mode == ResponseMode(rules, steps, route)
        cur == CursorGet(S.cursors, routeIdx)
        hit == FirstRule(rules, TemplateContext(RouteParams(route, req.path), req), 1)
        none == [mode |-> mode, rule |-> 0, step |-> -1, status |-> OrElse(route.status, 200),
                 raw |-> route.response, cursors |-> S.cursors]
    IN  IF mode = "rules"
        THEN (IF hit = 0 THEN none
              ELSE [none EXCEPT !.rule = hit,
                                !.status = OrElse(rules[hit].status, OrElse(route.status, 200)),
                                !.raw = rules[hit].response])
        ELSE IF mode = "sequence"
        THEN [none EXCEPT !.step = cur,
                          !.status = OrElse(steps[cur + 1].status, OrElse(route.status, 200)),
                          !.raw = steps[cur + 1].response,
                          !.cursors = Spread(S.cursors,
                                             [k \in {routeIdx} |-> NextCursor(steps, cur)])]
        ELSE [none EXCEPT !.raw = StaticResponse(route, pick)]

\* The route branch past the disabled check (lines 306-340), i the 1-based
\* position of the route: delay, error draw, response.
RouteServe(S, req, i, rnd, pick, ctr) ==
    LET route == S.routes[i]
        routeIdx == i - 1
        override == OverrideGet(S.routeOverrides, routeIdx)
        delay == EffectiveDelay(override, route, S.currentConfig)
        errorRate == EffectiveError(override, route)
        base == [Outcome(S, ctr) EXCEPT !.delay = delay, !.delayed = (delay.num > 0),
                                        !.errorRate = errorRate,
                                        !.drew = (errorRate.num > 0), !.logged = TRUE,
                                        !.route = i,
                                        !.params = RouteParams(route, req.path)]
        res == Resolve(S, req, i, pick)
        done == IF Nullish(res.raw) THEN [out |-> res.raw, ctr |-> ctr]
                ELSE processTemplate(res.raw, ctr)
    IN  IF ErrorInjected(errorRate, rnd)
        THEN [base EXCEPT !.status = OrElse(route.errorStatus, 500), !.branch = "error"]
        ELSE [base EXCEPT
                !.status = res.status,
                !.branch = "route", !.resolved = TRUE, !.body = done.out, !.ctr = done.ctr,
                !.mode = res.mode, !.rule = res.rule, !.step = res.step,
                !.cursors = res.cursors]

\* A proxy branch that hands the recorder an entry before the upstream has
\* answered.
ProxyBranchRecordsFirst(S, up, ctr) ==
    [Outcome(S, ctr) EXCEPT !.status = IF up THEN 200 ELSE 502, !.branch = "proxy",
                            !.logged = TRUE, !.proxied = TRUE,
                            !.recorded = S.onProxyResponse]

\* The proxy branch (lines 383-432): the upstream answers, or the call throws.
ProxyBranch(S, up, ctr) ==
    IF up THEN [Outcome(S, ctr) EXCEPT !.status = 200, !.branch = "proxy", !.logged = TRUE,
                                       !.proxied = TRUE, !.recorded = S.onProxyResponse]
    ELSE [Outcome(S, ctr) EXCEPT !.status = 502, !.branch = "proxy", !.logged = TRUE,
                                 !.proxied = TRUE]

\* An instance that ignores the passthrough flag.
PassthroughIgnored(override, cfg) == FALSE

\* Does the override send the request to the proxy path (specification,
\* section 4.5; RuntimeOverride.passthrough)?  Only with a proxy target.
Passthrough(override, cfg) ==
    Truthy(OvField(override, "passthrough")) /\ Truthy(cfg.proxyTarget)

\* The route branch with the disabled check placed after the delay and the
\* error draw.
RouteBranchLate(S, req, i, rnd, pick, up, ctr) ==
    LET served == RouteServe(S, req, i, rnd, pick, ctr)
        override == OverrideGet(S.routeOverrides, i - 1)
    IN  IF served.branch = "error" THEN served
        ELSE IF Truthy(OvField(override, "disabled"))
        THEN [DisabledResponse(S, ctr) EXCEPT !.delay = served.delay,
                                              !.delayed = served.delayed,
                                              !.errorRate = served.errorRate,
                                              !.drew = served.drew]
        ELSE served

\* The route branch (lines 293-340), i the 1-based position of the route.
RouteBranch(S, req, i, rnd, pick, up, ctr) ==
    IF Truthy(OvField(OverrideGet(S.routeOverrides, i - 1), "disabled"))
    THEN DisabledResponse(S, ctr)
    ELSE IF Passthrough(OverrideGet(S.routeOverrides, i - 1), S.currentConfig)
    THEN ProxyBranch(S, up, ctr)
    ELSE RouteServe(S, req, i, rnd, pick, ctr)

\* A resource branch that runs the CRUD operation before the error draw.
ResourceBranchWritesFirst(S, req, i, rnd, up, ctr) ==
    LET resource == S.resources[i]
        kind == ResourceTry(resource, req.method, req.path)
        id == IF kind = "item" THEN Decode(req.path[Len(req.path)]) ELSE ""
        override == OverrideGet(S.resourceOverrides, resource.name)
        delay == EffectiveDelay(override, resource, S.currentConfig)
        errorRate == EffectiveError(override, resource)
        base == [Outcome(S, ctr) EXCEPT !.delay = delay, !.delayed = (delay.num > 0),
                                        !.errorRate = errorRate,
                                        !.drew = (errorRate.num > 0), !.logged = TRUE]
        result == handleResourceCrud(S.store, req.method, resource, kind, id, req.body, ctr)
    IN  IF Truthy(OvField(override, "disabled")) THEN DisabledResponse(S, ctr)
        ELSE IF Passthrough(override, S.currentConfig) THEN ProxyBranch(S, up, ctr)
        ELSE IF ErrorInjected(errorRate, rnd)
        THEN [base EXCEPT !.status = OrElse(resource.errorStatus, 500), !.branch = "error",
                          !.store = IF result.threw THEN S.store ELSE result.store]
        ELSE IF result.threw
        THEN [base EXCEPT !.status = 500, !.branch = "throw", !.crud = result.crud,
                          !.logged = FALSE]
        ELSE [base EXCEPT !.status = result.status, !.branch = "resource",
                          !.store = result.store, !.ctr = result.ctr, !.crud = result.crud,
                          !.total = IF result.crud = "list"
                                    THEN StoreTotal(S.store, resource.name) ELSE -1]

\* The resource branch (lines 343-380), i the 1-based position of the resource.
ResourceBranch(S, req, i, rnd, up, ctr) ==
    LET resource == S.resources[i]
        kind == ResourceTry(resource, req.method, req.path)
        id == IF kind = "item" THEN Decode(req.path[Len(req.path)]) ELSE ""
        override == OverrideGet(S.resourceOverrides, resource.name)
        delay == EffectiveDelay(override, resource, S.currentConfig)
        errorRate == EffectiveError(override, resource)
        base == [Outcome(S, ctr) EXCEPT !.delay = delay, !.delayed = (delay.num > 0),
                                        !.errorRate = errorRate,
                                        !.drew = (errorRate.num > 0), !.logged = TRUE]
        result == handleResourceCrud(S.store, req.method, resource, kind, id, req.body, ctr)
    IN  IF Truthy(OvField(override, "disabled")) THEN DisabledResponse(S, ctr)
        ELSE IF Passthrough(override, S.currentConfig) THEN ProxyBranch(S, up, ctr)
        ELSE IF ErrorInjected(errorRate, rnd)
        THEN [base EXCEPT !.status = OrElse(resource.errorStatus, 500), !.branch = "error"]
        ELSE IF result.threw
        THEN [base EXCEPT !.status = 500, !.branch = "throw", !.crud = result.crud,
                          !.logged = FALSE]
        ELSE [base EXCEPT !.status = result.status, !.branch = "resource",
                          !.store = result.store, !.ctr = result.ctr, !.crud = result.crud,
                          !.total = IF result.crud = "list"
                                    THEN StoreTotal(S.store, resource.name) ELSE -1]

\* A failing request that takes the records of the instance with it.
ThrownDropsStore(S, ctr) ==
    [Outcome(S, ctr) EXCEPT !.status = 500, !.branch = "throw", !.store = EmptyStore]

\* A throw of handleRequest is caught by the listener of start(): 500, no log.
Thrown(S, ctr) == [Outcome(S, ctr) EXCEPT !.status = 500, !.branch = "throw"]

handleRequest(S, req, rnd, pick, up, ctr) ==
    LET m == matchRoute(S.routes, req.method, req.path)
        r == matchResource(S.resources, req.method, req.path)
    IN  IF Truthy(S.currentConfig.cors) /\ req.method = "OPTIONS"
        THEN [Outcome(S, ctr) EXCEPT !.status = 204, !.branch = "cors", !.logged = TRUE]
        ELSE IF req.method = "POST" /\ req.path = <<"__reset">>
        THEN [Outcome(S, ctr) EXCEPT !.status = 200, !.branch = "reset", !.logged = TRUE,
                                     !.store = StoreReset(S.store, ctr),
                                     !.ctr = ctr + StoreResetUuids(S.store)]
        ELSE IF m = -1 THEN Thrown(S, ctr)
        ELSE IF m > 0 THEN RouteBranch(S, req, m, rnd, pick, up, ctr)
        ELSE IF r = -1 THEN Thrown(S, ctr)
        ELSE IF r > 0 THEN ResourceBranch(S, req, r, rnd, up, ctr)
        ELSE IF Truthy(S.currentConfig.proxyTarget) THEN ProxyBranch(S, up, ctr)
        ELSE [Outcome(S, ctr) EXCEPT !.status = 404, !.branch = "notfound", !.logged = TRUE]


(***************************************************************************)
(* State.                                                                  *)
(*   srv        the MockServer objects created so far (the closure state   *)
(*              of createMockServer), by object number                     *)
(*   nServers   how many objects createMockServer has made                 *)
(*   listeners  the http.Server objects made by start(), by number:        *)
(*              [owner, port, state], state one of "new" (listen issued),  *)
(*              "listening", "failed" (EADDRINUSE), "closed"               *)
(*   calls      the asynchronous calls in progress (start(), stop() and    *)
(*              the manager calls awaiting them)                           *)
(*   instances  manager.ts: the registry, server id -> object number       *)
(*   persisted  project.ts: the config files, server id -> config          *)
(*   uuidCtr    how many UUIDs crypto.randomUUID() has handed out          *)
(*   last       the operation of the last step and what it answered        *)
(*   recordings recorder.ts: the recordings files, server id -> entries    *)
(*   recCalls   the record() and importRecordings() calls in progress      *)
(*   recSeq     how many Recordings have been handed to the recorder       *)
(*   inflight   the requests suspended in their simulated delay            *)
(***************************************************************************)
VARIABLES srv, nServers, listeners, calls, instances, persisted, uuidCtr, last,
          recordings, recCalls, recSeq, inflight

vars == <<srv, nServers, listeners, calls, instances, persisted, uuidCtr, last,
          recordings, recCalls, recSeq, inflight>>

\* What the recorder and the requests in flight add to the state; the
\* operations of an instance and of the manager leave them alone.
Aside == <<recordings, recCalls, recSeq, inflight>>
NoRecordings == [i \in {} |-> <<>>]
NothingAside ==
    recordings = NoRecordings /\ recCalls = {} /\ recSeq = 0 /\ inflight = {}

Objs == 1..MaxServers
NoObj == 0
NoListener == 0
NoId == ""

NoOverrides == [k \in {} |-> EmptyRecord]

\* A slot no createMockServer call has filled yet.
BlankServer ==
    [created |-> FALSE, currentConfig |-> EmptyRecord, routes |-> <<>>, resources |-> <<>>,
     store |-> EmptyStore, routeOverrides |-> NoOverrides, resourceOverrides |-> NoOverrides,
     cursors |-> NoCursors, running |-> FALSE, httpServer |-> NoListener,
     onProxyResponse |-> FALSE]

\* createMockServer(config): the new object and the UUID counter afterwards.
createMockServer(config, ctr) ==
    LET a == applyConfig(config, createStore, ctr)
    IN  [server |-> [BlankServer EXCEPT !.created = TRUE,
                                        !.currentConfig = a.currentConfig,
                                        !.routes = a.routes,
                                        !.resources = a.resources,
                                        !.store = a.store],
         ctr |-> a.ctr]

\* reload(newConfig) without the two clear() calls.
reloadKeepOverrides(S, newConfig, ctr) ==
    LET a == applyConfig(newConfig, S.store, ctr)
    IN  [server |-> [S EXCEPT !.currentConfig = a.currentConfig,
                              !.routes = a.routes,
                              !.resources = a.resources,
                              !.store = a.store,
                              !.cursors = ResetCursors(S.cursors)],
         ctr |-> a.ctr]

\* reload(newConfig): applyConfig, then both override maps are cleared.  The
\* store object is kept and re-seeded.  (The reset of the sequence cursors is
\* the specification's, see ResetCursors.)
reload(S, newConfig, ctr) ==
    LET a == applyConfig(newConfig, S.store, ctr)
    IN  [server |-> [S EXCEPT !.currentConfig = a.currentConfig,
                              !.routes = a.routes,
                              !.resources = a.resources,
                              !.store = a.store,
                              !.routeOverrides = NoOverrides,
                              !.resourceOverrides = NoOverrides,
                              !.cursors = ResetCursors(S.cursors)],
         ctr |-> a.ctr]

\* What `last` keeps of a handler run.
NoOutcome == [status |-> 0, branch |-> "", delay |-> Undefined, delayed |-> FALSE,
              errorRate |-> Undefined, drew |-> FALSE, resolved |-> FALSE,
              body |-> Undefined, crud |-> "none", logged |-> FALSE,
              proxied |-> FALSE, recorded |-> FALSE, route |-> 0, params |-> EmptyRecord,
              mode |-> "", rule |-> 0, step |-> -1, total |-> -1]
Observed(out) == [f \in DOMAIN NoOutcome |-> out[f]]

NoReq == [method |-> "", path |-> <<>>, body |-> Undefined, query |-> EmptyRecord]
Did(op, o, id, result) ==
    [op |-> op, o |-> o, id |-> id, result |-> result, arg |-> "", dirty |-> FALSE,
     req |-> NoReq, out |-> NoOutcome, nth |-> 0]

\* Was the request before this one answered by the 500 of a throw?
AfterThrow ==
    IF last.op = "request" /\ last.out.branch = "throw" THEN "after-throw" ELSE ""

\* How many requests in a row, this one included, sequence mode has answered
\* (counted up to MaxNth).
Nth(out) ==
    IF out.mode # "sequence" THEN 0
    ELSE IF last.nth < MaxNth THEN last.nth + 1 ELSE MaxNth

\* What an operation finds on the instance it acts on: live overrides,
\* sequence cursors that have advanced, records that differ from the seed.
Overridden(S) == S.routeOverrides # NoOverrides \/ S.resourceOverrides # NoOverrides
Advanced(S) == \E i \in DOMAIN S.cursors : S.cursors[i] # 0
Modified(S) == S.store.data # StoreReset(S.store, 0).data

MapSet(m, k, v) == Spread(m, [x \in {k} |-> v])
MapDel(m, k) == [x \in (DOMAIN m) \ {k} |-> m[x]]

\* instance.port
PortOf(S) == S.currentConfig.port

\* Is some listener bound to port p?
PortBound(p) ==
    \E l \in 1..Len(listeners) : listeners[l].state = "listening" /\ listeners[l].port = p

\* Does object o accept connections (one of its listeners is bound)?
Accepting(o) ==
    \E l \in 1..Len(listeners) : listeners[l].state = "listening" /\ listeners[l].owner = o


(***************************************************************************)
(* project.ts                                                              *)
(***************************************************************************)
\* deleteServerConfig(id): the file is unlinked; a failing unlink (no such
\* file) is caught and answered false.
deleteServerConfig(files, id) == MapDel(files, id)
deleteServerConfigResult(files, id) == id \in DOMAIN files

(***************************************************************************)
(* server.ts: start() and stop().  Each is a call (the synchronous part up *)
(* to its await) and a completion (the listen or close callback).          *)
(***************************************************************************)
Call(op, o, l, id, del) == [op |-> op, o |-> o, l |-> l, id |-> id, del |-> del]

NewListener(o) == [owner |-> o, port |-> PortOf(srv[o]), state |-> "new"]

\* start() without the `if (_running) return` guard.
StartCallUnguarded(o) ==
    /\ srv[o].created
    /\ Len(listeners) < MaxListeners
    /\ listeners' = Append(listeners, NewListener(o))
    /\ srv' = [srv EXCEPT ![o].httpServer = Len(listeners) + 1]
    /\ calls' = calls \cup {Call("start", o, Len(listeners) + 1, NoId, FALSE)}
    /\ last' = Did("start", o, NoId, "pending")
    /\ UNCHANGED <<nServers, instances, persisted, uuidCtr, Aside>>

\* start() called on object o, directly (not through the manager).
StartCall(o) ==
    /\ srv[o].created
    /\ IF srv[o].running
       THEN /\ last' = Did("start", o, NoId, "noop")
            /\ UNCHANGED <<srv, listeners, calls>>
       ELSE /\ Len(listeners) < MaxListeners
            /\ listeners' = Append(listeners, NewListener(o))
            /\ srv' = [srv EXCEPT ![o].httpServer = Len(listeners) + 1]
            /\ calls' = calls \cup {Call("start", o, Len(listeners) + 1, NoId, FALSE)}
            /\ last' = Did("start", o, NoId, "pending")
    /\ UNCHANGED <<nServers, instances, persisted, uuidCtr, Aside>>

\* The listen callback of a start() in progress: _running = true, and the
\* manager call awaiting it registers the instance.
StartListening(c) ==
    /\ c \in calls /\ c.op = "start"
    /\ ~PortBound(listeners[c.l].port)
    /\ listeners' = [listeners EXCEPT ![c.l].state = "listening"]
    /\ srv' = [srv EXCEPT ![c.o].running = TRUE]
    /\ instances' = IF c.id # NoId THEN MapSet(instances, c.id, c.o) ELSE instances
    /\ calls' = calls \ {c}
    /\ last' = Did("started", c.o, c.id, "ok")
    /\ UNCHANGED <<nServers, persisted, uuidCtr, Aside>>

\* The 'error' event of a start() in progress (EADDRINUSE): start() rejects,
\* _running stays false and httpServer keeps the unbound server.
StartFailed(c) ==
    /\ c \in calls /\ c.op = "start"
    /\ PortBound(listeners[c.l].port)
    /\ listeners' = [listeners EXCEPT ![c.l].state = "failed"]
    /\ calls' = calls \ {c}
    /\ last' = Did("started", c.o, c.id, "rejected")
    /\ UNCHANGED <<srv, nServers, instances, persisted, uuidCtr, Aside>>

\* httpServer.close(): a bound listener stops listening at once.
CloseListener(ls, l) ==
    IF ls[l].state = "listening" THEN [ls EXCEPT ![l].state = "closed"] ELSE ls

\* stop() called on object o, directly.
StopCall(o) ==
    /\ srv[o].created
    /\ IF ~srv[o].running \/ srv[o].httpServer = NoListener
       THEN /\ last' = Did("stop", o, NoId, "noop")
            /\ UNCHANGED <<listeners, calls>>
       ELSE /\ listeners' = CloseListener(listeners, srv[o].httpServer)
            /\ calls' = calls \cup {Call("stop", o, srv[o].httpServer, NoId, FALSE)}
            /\ last' = Did("stop", o, NoId, "pending")
    /\ UNCHANGED <<srv, nServers, instances, persisted, uuidCtr, Aside>>

\* A close callback that also drops the runtime overrides.
StopClosedForgets(c) ==
    /\ c \in calls /\ c.op = "stop"
    /\ srv' = [srv EXCEPT ![c.o].httpServer = NoListener, ![c.o].running = FALSE,
                          ![c.o].routeOverrides = NoOverrides,
                          ![c.o].resourceOverrides = NoOverrides]
    /\ instances' = IF c.id # NoId THEN MapDel(instances, c.id) ELSE instances
    /\ persisted' = IF c.del THEN deleteServerConfig(persisted, c.id) ELSE persisted
    /\ calls' = calls \ {c}
    /\ last' = Did("stopped", c.o, c.id, "ok")
    /\ UNCHANGED <<nServers, listeners, uuidCtr, Aside>>

\* The close callback of a stop() in progress: httpServer = null,
\* _running = false; stopInstance then drops the id from the registry and
\* deleteInstance removes the config file.
StopClosed(c) ==
    /\ c \in calls /\ c.op = "stop"
    /\ srv' = [srv EXCEPT ![c.o].httpServer = NoListener, ![c.o].running = FALSE]
    /\ instances' = IF c.id # NoId THEN MapDel(instances, c.id) ELSE instances
    /\ persisted' = IF c.del THEN deleteServerConfig(persisted, c.id) ELSE persisted
    /\ calls' = calls \ {c}
    /\ last' = Did("stopped", c.o, c.id, "ok")
    /\ UNCHANGED <<nServers, listeners, uuidCtr, Aside>>

(***************************************************************************)
(* manager.ts                                                              *)
(***************************************************************************)
\* createInstance(config): the config is saved.
CreateInstance(cfg) ==
    /\ persisted' = MapSet(persisted, cfg.id, cfg)
    /\ last' = Did("createInstance", NoObj, cfg.id, "ok")
    /\ UNCHANGED <<srv, nServers, listeners, calls, instances, uuidCtr, Aside>>

\* startInstance(id) up to `await project.getServerConfig(id)`.
StartInstance(id) ==
    /\ IF id \in DOMAIN instances /\ srv[instances[id]].running
       THEN /\ last' = Did("startInstance", instances[id], id, "existing")
            /\ UNCHANGED calls
       ELSE /\ calls' = calls \cup {Call("load", NoObj, NoListener, id, FALSE)}
            /\ last' = Did("startInstance", NoObj, id, "loading")
    /\ UNCHANGED <<srv, nServers, listeners, instances, persisted, uuidCtr, Aside>>

\* The port-conflict loop with the id comparison the wrong way round.
PortConflictOwnId(id, config) ==
    \E otherId \in DOMAIN instances :
        /\ otherId = id
        /\ srv[instances[otherId]].running
        /\ PortOf(srv[instances[otherId]]) = config.port

\* The port-conflict loop of startInstance.
PortConflict(id, config) ==
    \E otherId \in DOMAIN instances :
        /\ otherId # id
        /\ srv[instances[otherId]].running
        /\ PortOf(srv[instances[otherId]]) = config.port

\* A startInstance that starts the object made last again instead of
\* creating one from the saved config.
LoadConfigRestart(c) ==
    /\ c \in calls /\ c.op = "load"
    /\ nServers >= 1 /\ Len(listeners) < MaxListeners
    /\ srv' = [srv EXCEPT ![nServers].httpServer = Len(listeners) + 1]
    /\ listeners' = Append(listeners, NewListener(nServers))
    /\ calls' = (calls \ {c}) \cup {Call("start", nServers, Len(listeners) + 1, c.id, FALSE)}
    /\ last' = Did("startInstance", nServers, c.id, "pending")
    /\ UNCHANGED <<nServers, instances, persisted, uuidCtr, Aside>>

\* startInstance(id) from the config read to `await server.start()`.
LoadConfig(c) ==
    /\ c \in calls /\ c.op = "load"
    /\ IF c.id \notin DOMAIN persisted
       THEN /\ calls' = calls \ {c}
            /\ last' = Did("startInstance", NoObj, c.id, "notfound")
            /\ UNCHANGED <<srv, nServers, listeners, uuidCtr, Aside>>
       ELSE IF PortConflict(c.id, persisted[c.id])
       THEN /\ calls' = calls \ {c}
            /\ last' = Did("startInstance", NoObj, c.id, "conflict")
            /\ UNCHANGED <<srv, nServers, listeners, uuidCtr, Aside>>
       ELSE LET config == persisted[c.id]
                o == nServers + 1
                l == Len(listeners) + 1
                mk == createMockServer(config, uuidCtr)
            IN  /\ o <= MaxServers /\ l <= MaxListeners /\ mk.ctr <= MaxUuid
                /\ nServers' = o
                /\ uuidCtr' = mk.ctr /\ UNCHANGED Aside
                /\ srv' = [srv EXCEPT ![o] =
                              [mk.server EXCEPT !.httpServer = l,
                                                !.onProxyResponse = Truthy(config.proxyTarget)]]
                /\ listeners' = Append(listeners,
                                       [owner |-> o, port |-> config.port, state |-> "new"])
                /\ calls' = (calls \ {c}) \cup {Call("start", o, l, c.id, FALSE)}
                /\ last' = Did("startInstance", o, c.id, "pending")
    /\ UNCHANGED <<instances, persisted>>

\* stopInstance / deleteInstance without `if (!server) return`: stop() is
\* called on undefined and the call throws.
StopInstanceUnchecked(id, del) ==
    LET op == IF del THEN "deleteInstance" ELSE "stopInstance" IN
    IF id \notin DOMAIN instances
    THEN /\ last' = Did(op, NoObj, id, "threw")
         /\ UNCHANGED <<srv, nServers, listeners, calls, instances, persisted, uuidCtr, Aside>>
    ELSE LET o == instances[id] IN
         IF ~srv[o].running \/ srv[o].httpServer = NoListener
         THEN /\ instances' = MapDel(instances, id)
              /\ persisted' = IF del THEN deleteServerConfig(persisted, id) ELSE persisted
              /\ last' = Did(op, o, id, "ok")
              /\ UNCHANGED <<srv, nServers, listeners, calls, uuidCtr, Aside>>
         ELSE /\ listeners' = CloseListener(listeners, srv[o].httpServer)
              /\ calls' = calls \cup {Call("stop", o, srv[o].httpServer, id, del)}
              /\ last' = Did(op, o, id, "pending")
              /\ UNCHANGED <<srv, nServers, instances, persisted, uuidCtr, Aside>>

\* stopInstance(id) (del = FALSE) and deleteInstance(id) (del = TRUE) up to
\* `await server.stop()`; when stop() has nothing to close they run through.
StopInstance(id, del) ==
    LET op == IF del THEN "deleteInstance" ELSE "stopInstance" IN
    IF id \notin DOMAIN instances
    THEN /\ persisted' = IF del THEN deleteServerConfig(persisted, id) ELSE persisted
         /\ last' = Did(op, NoObj, id,
                        IF del /\ deleteServerConfigResult(persisted, id)
                        THEN "deleted" ELSE "noop")
         /\ UNCHANGED <<srv, nServers, listeners, calls, instances, uuidCtr, Aside>>
    ELSE LET o == instances[id] IN
         IF ~srv[o].running \/ srv[o].httpServer = NoListener
         THEN /\ instances' = MapDel(instances, id)
              /\ persisted' = IF del THEN deleteServerConfig(persisted, id) ELSE persisted
              /\ last' = Did(op, o, id, "ok")
              /\ UNCHANGED <<srv, nServers, listeners, calls, uuidCtr, Aside>>
         ELSE /\ listeners' = CloseListener(listeners, srv[o].httpServer)
              /\ calls' = calls \cup {Call("stop", o, srv[o].httpServer, id, del)}
              /\ last' = Did(op, o, id, "pending")
              /\ UNCHANGED <<srv, nServers, instances, persisted, uuidCtr, Aside>>


\* server.reload(config) as reloadInstance and the file watcher call it.
Reloaded(o, config) == reload(srv[o], config, uuidCtr)

\* reloadInstance(id, config): a registered, running instance is reloaded;
\* the config is saved in any case.
ReloadInstance(id, config) ==
    LET live == id \in DOMAIN instances /\ srv[instances[id]].running
        o == IF live THEN instances[id] ELSE NoObj
    IN  /\ IF live
           THEN /\ Reloaded(o, config).ctr <= MaxUuid
                /\ srv' = [srv EXCEPT ![o] = Reloaded(o, config).server]
                /\ uuidCtr' = Reloaded(o, config).ctr /\ UNCHANGED Aside
           ELSE UNCHANGED <<srv, uuidCtr, Aside>>
        /\ persisted' = MapSet(persisted, id, config)
        /\ last' = [Did("reload", o, id, IF live THEN "reloaded" ELSE "saved") EXCEPT
                        !.dirty = live /\ Overridden(srv[o]) /\ Advanced(srv[o])
                                       /\ Modified(srv[o])]
        /\ UNCHANGED <<nServers, listeners, calls, instances>>

(***************************************************************************)
(* server.ts: one request served by object o.                              *)
(***************************************************************************)
View(o) == srv[o]

\* One request served when the record store is a module-level object that
\* every instance of the process shares.
RequestShared(o, req, rnd, pick, up) ==
    /\ srv[o].created /\ Accepting(o)
    /\ \E out \in {handleRequest(View(o), req, rnd, pick, up, uuidCtr)} :
        /\ out.ctr <= MaxUuid
        /\ srv' = [b \in Objs |->
                      IF b = o THEN [srv[b] EXCEPT !.store = out.store, !.cursors = out.cursors]
                      ELSE IF srv[b].created THEN [srv[b] EXCEPT !.store = out.store]
                      ELSE srv[b]]
        /\ uuidCtr' = out.ctr /\ UNCHANGED Aside
        /\ last' = [Did("request", o, NoId,
                         IF out.proxied /\ ~up THEN "upstream-failed" ELSE "ok")
                        EXCEPT !.req = req, !.out = Observed(out),
                               !.nth = Nth(out), !.arg = AfterThrow]
    /\ UNCHANGED <<nServers, listeners, calls, instances, persisted>>

RequestWithin(o, req, rnd, pick, up, maxCtr) ==
    /\ srv[o].created /\ Accepting(o)
    /\ \E out \in {handleRequest(View(o), req, rnd, pick, up, uuidCtr)} :
        /\ out.ctr <= maxCtr
        /\ srv' = [srv EXCEPT ![o].store = out.store, ![o].cursors = out.cursors]
        /\ uuidCtr' = out.ctr /\ UNCHANGED Aside
        /\ last' = [Did("request", o, NoId,
                         IF out.proxied /\ ~up THEN "upstream-failed" ELSE "ok")
                        EXCEPT !.req = req, !.out = Observed(out),
                               !.nth = Nth(out), !.arg = AfterThrow]
    /\ UNCHANGED <<nServers, listeners, calls, instances, persisted>>

\* A request to instance o.
Request(o, req, rnd, pick, up) == RequestWithin(o, req, rnd, pick, up, MaxUuid)

(***************************************************************************)
(* dashboard.ts: the per-server management handlers                        *)
(***************************************************************************)
\* manager.getInstance(id)?.running
LiveInstance(id) == id \in DOMAIN instances /\ srv[instances[id]].running

\* PATCH /__api/servers/:id : the saved config is patched and reloaded.
PatchServer(id, incoming) ==
    IF id \notin DOMAIN persisted
    THEN /\ last' = Did("patchServer", NoObj, id, "404")
         /\ UNCHANGED <<srv, nServers, listeners, calls, instances, persisted, uuidCtr, Aside>>
    ELSE ReloadInstance(id, WithField(Spread(persisted[id], incoming), "id", persisted[id].id))

\* PATCH /__api/servers/:id/overrides/routes/:idx
PatchRouteOverride(id, idx, incoming) ==
    /\ IF ~LiveInstance(id)
       THEN /\ last' = Did("overrideRoute", NoObj, id, "400")
            /\ UNCHANGED srv
       ELSE LET o == instances[id]
                existing == IF idx \in DOMAIN srv[o].routeOverrides
                            THEN srv[o].routeOverrides[idx] ELSE EmptyRecord
            IN  /\ srv' = [srv EXCEPT ![o].routeOverrides =
                              MapSet(@, idx, Spread(existing, incoming))]
                /\ last' = Did("overrideRoute", o, id, "ok")
    /\ UNCHANGED <<nServers, listeners, calls, instances, persisted, uuidCtr, Aside>>

\* PATCH /__api/servers/:id/overrides/resources/:name
PatchResourceOverride(id, name, incoming) ==
    /\ IF ~LiveInstance(id)
       THEN /\ last' = Did("overrideResource", NoObj, id, "400")
            /\ UNCHANGED srv
       ELSE LET o == instances[id]
                existing == IF name \in DOMAIN srv[o].resourceOverrides
                            THEN srv[o].resourceOverrides[name] ELSE EmptyRecord
            IN  /\ srv' = [srv EXCEPT ![o].resourceOverrides =
                              MapSet(@, name, Spread(existing, incoming))]
                /\ last' = Did("overrideResource", o, id, "ok")
    /\ UNCHANGED <<nServers, listeners, calls, instances, persisted, uuidCtr, Aside>>

\* The two loops that mark the disabled routes / resources of a profile.
RECURSIVE MarkDisabled(_, _)
MarkDisabled(map, keys) ==
    IF keys = <<>> THEN map
    ELSE LET k == Head(keys)
             existing == IF k \in DOMAIN map THEN map[k] ELSE EmptyRecord
         IN  MarkDisabled(MapSet(map, k, WithField(existing, "disabled", Bool(TRUE))),
                          Tail(keys))

\* The override maps of an instance after a profile was applied to it.
\* The entries of overrides.routes under the key parseInt(idx).
RouteEntries(routes) ==
    [i \in {ParseInt(k) : k \in DOMAIN routes} |->
        routes[CHOOSE k \in DOMAIN routes : ParseInt(k) = i]]
\* The route overrides of a profile without the loop over disabledRoutes.
ProfileRouteOverridesOnly(profile) == RouteEntries(profile.overrides.routes)

ProfileRouteOverrides(profile) ==
    MarkDisabled(RouteEntries(profile.overrides.routes), profile.disabledRoutes)
ProfileResourceOverrides(profile) ==
    MarkDisabled(profile.overrides.resources, profile.disabledResources)

\* POST /__api/servers/:id/profiles/:name/activate
ActivateProfile(id, profName) ==
    /\ IF id \notin DOMAIN persisted
       THEN /\ last' = Did("activate", NoObj, id, "404")
            /\ UNCHANGED <<srv, persisted>>
       ELSE IF profName \notin DOMAIN persisted[id].profiles
       THEN /\ last' = Did("activate", NoObj, id, "404")
            /\ UNCHANGED <<srv, persisted>>
       ELSE LET profile == persisted[id].profiles[profName]
                o == IF LiveInstance(id) THEN instances[id] ELSE NoObj
            IN  /\ srv' = IF LiveInstance(id)
                          THEN [srv EXCEPT
                                  ![o].routeOverrides = ProfileRouteOverrides(profile),
                                  ![o].resourceOverrides = ProfileResourceOverrides(profile)]
                          ELSE srv
                /\ persisted' = [persisted EXCEPT ![id].activeProfile = Str(profName)]
                /\ last' = [Did("activate", o, id, "ok") EXCEPT
                                !.arg = profName,
                                !.dirty = LiveInstance(id) /\ Overridden(srv[o])]
    /\ UNCHANGED <<nServers, listeners, calls, instances, uuidCtr, Aside>>

\* A deactivation that unsets the pointer and leaves the live maps alone.
DeactivatePointerOnly(id) ==
    /\ IF id \notin DOMAIN persisted
       THEN /\ last' = Did("deactivate", NoObj, id, "404")
            /\ UNCHANGED persisted
       ELSE /\ persisted' = [persisted EXCEPT ![id].activeProfile = Undefined]
            /\ last' = Did("deactivate", IF LiveInstance(id) THEN instances[id] ELSE NoObj,
                           id, "ok")
    /\ UNCHANGED <<srv, nServers, listeners, calls, instances, uuidCtr, Aside>>

\* Deactivating the active profile (specification, section 4.5; the
\* dashboard's deactivate button calls it): both override maps of the
\* running instance are cleared and the active-profile pointer is unset.
DeactivateProfile(id) ==
    /\ IF id \notin DOMAIN persisted
       THEN /\ last' = Did("deactivate", NoObj, id, "404")
            /\ UNCHANGED <<srv, persisted>>
       ELSE LET o == IF LiveInstance(id) THEN instances[id] ELSE NoObj
            IN  /\ srv' = IF LiveInstance(id)
                          THEN [srv EXCEPT ![o].routeOverrides = NoOverrides,
                                           ![o].resourceOverrides = NoOverrides]
                          ELSE srv
                /\ persisted' = [persisted EXCEPT ![id].activeProfile = Undefined]
                /\ last' = [Did("deactivate", o, id, "ok") EXCEPT
                                !.dirty = /\ LiveInstance(id) /\ Overridden(srv[o])
                                          /\ persisted[id].activeProfile # Undefined]
    /\ UNCHANGED <<nServers, listeners, calls, instances, uuidCtr, Aside>>

(***************************************************************************)
(* The configurations, requests and management inputs the model runs on.   *)
(* Probabilities are in percent: an `error` of 0.5 is Num(50) and a draw   *)
(* of Math.random() is a number in 0..99.                                  *)
(***************************************************************************)
\* A RouteConfig as the config file holds it; "" / 0 / Undefined stand for
\* an absent method / status / field.
RouteConfig(method, path, response) ==
    [method |-> method, path |-> path, status |-> 0, response |-> response,
     responses |-> <<>>, delay |-> Undefined, error |-> Undefined, errorStatus |-> 0,
     sequence |-> <<>>, rules |-> <<>>]
SequenceStep(status, response, sticky) ==
    [status |-> status, response |-> response, sticky |-> sticky]

HelloRoute == RouteConfig("get", <<"hello">>, Str("hi"))
ByeRoute == RouteConfig("", <<"bye">>, Str("bye"))
SeqRoute ==
    [RouteConfig("*", <<"seq">>, Undefined) EXCEPT
        !.sequence = <<SequenceStep(201, Str("one"), FALSE), SequenceStep(0, Str("two"), FALSE)>>]

\* A ResourceConfig together with its key in `resources`.
ResourceConfig(name, seed) ==
    [name |-> name, basePath |-> <<name>>, seed |-> seed, count |-> Num(1),
     idField |-> Undefined, delay |-> Undefined, error |-> Undefined, errorStatus |-> 0]
UsersRes == ResourceConfig("users", [id |-> Num(1), name |-> Str("a")])
PostsRes == ResourceConfig("posts", [id |-> Num(1), title |-> Str("t")])

\* A Profile.  The keys of overrides.routes are the property names of a
\* JSON object, that is strings.
Profile(name, disabledRoutes, disabledResources, routes, resources) ==
    [name |-> name, disabledRoutes |-> disabledRoutes,
     disabledResources |-> disabledResources,
     overrides |-> [routes |-> routes, resources |-> resources]]
NoRouteEntries == [k \in {} |-> EmptyRecord]

\* A MockServerConfig (createDefaultConfig: cors true, delay 0, no profiles).
ServerConfig(id, port) ==
    [id |-> id, port |-> port, cors |-> Bool(TRUE), delay |-> Num(0),
     routes |-> <<HelloRoute>>, resources |-> <<UsersRes>>,
     profiles |-> [n \in {} |-> EmptyRecord], activeProfile |-> Undefined,
     proxyTarget |-> Undefined]

Req(method, path, body) ==
    [method |-> method, path |-> path, body |-> body, query |-> EmptyRecord]
GetHello == Req("GET", <<"hello">>, Undefined)
GetUsers == Req("GET", <<"users">>, Undefined)
PostUser == Req("POST", <<"users">>, [id |-> Num(2), name |-> Str("z")])
PostAnon == Req("POST", <<"users">>, [name |-> Str("y")])
DeleteUser == Req("DELETE", <<"users", "1">>, Undefined)
PatchUser == Req("PATCH", <<"users", "1">>, [name |-> Str("b")])
Preflight == Req("OPTIONS", <<"hello">>, Undefined)
ResetReq == Req("POST", <<"__reset">>, Undefined)
GetNowhere == Req("GET", <<"nowhere">>, Undefined)
AnySeq == Req("PUT", <<"seq">>, Undefined)

\* Values of Math.random() for the error draw.
Rnds == {0, 50, 99}

\* The state startInstance leaves behind for one server: object o listens
\* on listener l.
Up(server, l) == [server EXCEPT !.running = TRUE, !.httpServer = l]
Listening(o, port) == [owner |-> o, port |-> port, state |-> "listening"]

(***************************************************************************)
(* SpecReq: one running instance serving requests.  The static delay and   *)
(* error of its route and resource, the server-wide delay and the live     *)
(* override of the route and of the resource are drawn in the initial      *)
(* state.                                                                  *)
(***************************************************************************)
StaticDelays == {Undefined, Num(0), Num(100)}
StaticErrors == {Undefined, Num(50)}
ServerDelays == {Undefined, Num(30)}
\* Bodies of PATCH .../overrides/...
OverrideBodies ==
    {[delay |-> Num(0)], [delay |-> Num(7)], [error |-> Num(0)], [error |-> Num(100)],
     [disabled |-> Bool(TRUE)],
     [disabled |-> Bool(TRUE), delay |-> Num(7), error |-> Num(100)],
     [disabled |-> Bool(FALSE), delay |-> Null, error |-> Num(0)]}

ReqConfig(d, e, sd) ==
    [ServerConfig("a", 3000) EXCEPT
        !.delay = sd,
        !.routes = <<[HelloRoute EXCEPT !.delay = d, !.error = e]>>,
        !.resources = <<[UsersRes EXCEPT !.delay = d, !.error = e]>>]

ReqRequests ==
    {GetHello, GetUsers, PostUser, PostAnon, DeleteUser, Preflight, ResetReq, GetNowhere}

InitReq ==
    \E d \in StaticDelays, e \in StaticErrors, sd \in ServerDelays,
       ov \in OverrideBodies \cup {Undefined} :
      \E cfg \in {ReqConfig(d, e, sd)} :
      \E mk \in {createMockServer(cfg, 0)} :
        LET live == [Up(mk.server, 1) EXCEPT
                        !.routeOverrides =
                            IF ov = Undefined THEN NoOverrides ELSE [k \in {0} |-> ov],
                        !.resourceOverrides =
                            IF ov = Undefined THEN NoOverrides ELSE [k \in {"users"} |-> ov]]
        IN  /\ srv = [o \in Objs |-> IF o = 1 THEN live ELSE BlankServer]
            /\ nServers = 1
            /\ listeners = <<Listening(1, cfg.port)>>
            /\ calls = {}
            /\ instances = [i \in {"a"} |-> 1]
            /\ persisted = [i \in {"a"} |-> cfg]
            /\ uuidCtr = mk.ctr /\ NothingAside
            /\ last = Did("init", NoObj, NoId, "ok")

NextReq == \E req \in ReqRequests, rnd \in Rnds : Request(1, req, rnd, 1, TRUE)

SpecReq == InitReq /\ [][NextReq]_vars

\* Does the pipeline hand the request to the matcher (it is neither a CORS
\* preflight nor the reset endpoint)?
ReachesMatcher(S, req) ==
    /\ ~(Truthy(S.currentConfig.cors) /\ req.method = "OPTIONS")
    /\ ~(req.method = "POST" /\ req.path = <<"__reset">>)

\* The live override of the route (tag "route") or resource (tag
\* "resource") the matcher finds for the request; "none" when nothing
\* matches.
MatchedKind(S, req) ==
    IF ~ReachesMatcher(S, req) THEN "none"
    ELSE IF matchRoute(S.routes, req.method, req.path) > 0 THEN "route"
    ELSE IF matchRoute(S.routes, req.method, req.path) = 0
            /\ matchResource(S.resources, req.method, req.path) > 0 THEN "resource"
    ELSE "none"
MatchedStatic(S, req) ==
    IF MatchedKind(S, req) = "route"
    THEN S.routes[matchRoute(S.routes, req.method, req.path)]
    ELSE S.resources[matchResource(S.resources, req.method, req.path)]
MatchedOverride(S, req) ==
    IF MatchedKind(S, req) = "route"
    THEN (LET idx == matchRoute(S.routes, req.method, req.path) - 1
          IN  IF idx \in DOMAIN S.routeOverrides THEN S.routeOverrides[idx] ELSE EmptyRecord)
    ELSE (LET name == MatchedStatic(S, req).name
          IN  IF name \in DOMAIN S.resourceOverrides
              THEN S.resourceOverrides[name] ELSE EmptyRecord)
MatchedDisabled(S, req) ==
    /\ MatchedKind(S, req) # "none"
    /\ "disabled" \in DOMAIN MatchedOverride(S, req)
    /\ MatchedOverride(S, req).disabled = Bool(TRUE)

\* C2: a request whose matched route or resource has a live override with
\* disabled:true is answered 503 and nothing else happens for it: no delay,
\* no error draw, no response resolved, no CRUD operation, the store and
\* the UUID counter untouched, whatever error, delay and response are
\* configured.
C2_DisabledAnswers503 ==
    [][(last'.op = "request" /\ MatchedDisabled(srv[last'.o], last'.req))
        => /\ last'.out.status = 503
           /\ ~last'.out.delayed
           /\ ~last'.out.drew
           /\ ~last'.out.resolved
           /\ last'.out.crud = "none"
           /\ srv'[last'.o].store = srv[last'.o].store
           /\ uuidCtr' = uuidCtr]_vars

\* A POST was sent to a disabled resource that has a static error and delay
\* and whose override also carries a delay and an error.
C2_Witness ==
    /\ last.op = "request" /\ last.out.status = 503
    /\ last.req = PostUser
    /\ MatchedDisabled(srv[1], last.req)
    /\ srv[1].resources[1].error = Num(50) /\ srv[1].resources[1].delay = Num(100)
    /\ srv[1].resourceOverrides["users"] =
           [disabled |-> Bool(TRUE), delay |-> Num(7), error |-> Num(100)]

\* The lookup order as the claim states it.
HasValue(ov, f) == f \in DOMAIN ov /\ ~Nullish(ov[f])
ExpectedDelay(ov, static, cfg) ==
    IF HasValue(ov, "delay") THEN ov.delay
    ELSE IF ~Nullish(static.delay) THEN static.delay
    ELSE IF ~Nullish(cfg.delay) THEN cfg.delay
    ELSE Num(0)
ExpectedError(ov, static) ==
    IF HasValue(ov, "error") THEN ov.error
    ELSE IF ~Nullish(static.error) THEN static.error
    ELSE Num(0)

\* C3: for a request served by a matched route or resource that is not
\* disabled, the delay is the override's delay when it has one (0
\* included), else the static delay, else the server-wide delay, else 0,
\* and the error probability is the override's error when present, else
\* the static error, else 0.
C3_EffectiveDelayAndError ==
    (last.op = "request" /\ MatchedKind(srv[last.o], last.req) # "none"
        /\ ~MatchedDisabled(srv[last.o], last.req))
    => LET S == srv[last.o]
           ov == MatchedOverride(S, last.req)
           static == MatchedStatic(S, last.req)
       IN  /\ last.out.delay = ExpectedDelay(ov, static, S.currentConfig)
           /\ last.out.delayed = (ExpectedDelay(ov, static, S.currentConfig).num > 0)
           /\ last.out.errorRate = ExpectedError(ov, static)

\* The route with static delay 100 and a live override delay 0 was served
\* with delay 0.
C3_Witness ==
    /\ last.op = "request" /\ last.req = GetHello /\ last.out.branch = "route"
    /\ srv[1].routes[1].delay = Num(100)
    /\ 0 \in DOMAIN srv[1].routeOverrides
    /\ srv[1].routeOverrides[0] = [delay |-> Num(0)]
    /\ last.out.delay = Num(0) /\ ~last.out.delayed

(***************************************************************************)
(* Spec: two instances, "a" and "b", started by the manager on different   *)
(* ports, serving requests while the dashboard changes overrides and       *)
(* reloads their configs.                                                  *)
(***************************************************************************)
EngineRequests == {GetHello, PostUser, DeleteUser, ResetReq}
EngineRouteOverrides == {[disabled |-> Bool(TRUE)]}
EngineResourceOverrides == {[delay |-> Num(0)]}
\* Bodies of PATCH /__api/servers/:id
EnginePatches == {[routes |-> <<HelloRoute, ByeRoute>>]}
EngineIds == {"a", "b"}

Init ==
    \E ca \in {ServerConfig("a", 3000)}, cb \in {ServerConfig("b", 3001)} :
    \E ma \in {createMockServer(ca, 0)} :
    \E mb \in {createMockServer(cb, ma.ctr)} :
        /\ srv = [o \in Objs |-> IF o = 1 THEN Up(ma.server, 1)
                                 ELSE IF o = 2 THEN Up(mb.server, 2)
                                 ELSE BlankServer]
        /\ nServers = 2
        /\ listeners = <<Listening(1, ca.port), Listening(2, cb.port)>>
        /\ calls = {}
        /\ instances = [i \in EngineIds |-> IF i = "a" THEN 1 ELSE 2]
        /\ persisted = [i \in EngineIds |-> IF i = "a" THEN ca ELSE cb]
        /\ uuidCtr = mb.ctr /\ NothingAside
        /\ last = Did("init", NoObj, NoId, "ok")

Next ==
    \/ \E o \in {1, 2}, req \in EngineRequests : Request(o, req, 0, 1, TRUE)
    \/ \E id \in EngineIds, body \in EngineRouteOverrides : PatchRouteOverride(id, 0, body)
    \/ \E id \in EngineIds, body \in EngineResourceOverrides :
          PatchResourceOverride(id, "users", body)
    \/ \E id \in EngineIds, incoming \in EnginePatches : PatchServer(id, incoming)

Spec == Init /\ [][Next]_vars

\* What of an instance the isolation is about.
Owned(S) == <<S.routes, S.resources, S.store, S.routeOverrides, S.resourceOverrides>>

\* C1: a request served by an instance (the reset endpoint included), an
\* override change on it or a reload of it leaves the routes, resources,
\* store contents and both override maps of every other instance unchanged.
C1_InstancesIsolated ==
    [][\A b \in Objs :
          (last'.op \in {"request", "overrideRoute", "overrideResource", "reload"}
             /\ last'.o # b)
          => Owned(srv'[b]) = Owned(srv[b])]_vars

\* Instance "a" has just been reloaded with a second route while "b" keeps
\* its one route, a record created over HTTP and a live route override.
C1_Witness ==
    /\ last.op = "reload" /\ last.o = 1
    /\ Len(srv[1].routes) = 2 /\ srv[1].routeOverrides = NoOverrides
    /\ Len(srv[2].routes) = 1
    /\ StoreHas(srv[2].store, "users", "2") /\ ~StoreHas(srv[1].store, "users", "2")
    /\ 0 \in DOMAIN srv[2].routeOverrides

(***************************************************************************)
(* SpecProfile: one instance, "a", whose config holds three profiles.  The *)
(* dashboard patches overrides ad hoc, activates and deactivates profiles, *)
(* patches the config (which reloads the instance) and stops the server,   *)
(* while requests advance a sequence route and change the store.           *)
(***************************************************************************)
\* Route 0 and the resource are both disabled and overridden by "night".
NightProfile ==
    Profile("night", <<0>>, <<"users">>,
            [k \in {"0", "1"} |-> IF k = "0" THEN [delay |-> Num(7)] ELSE [error |-> Num(100)]],
            [k \in {"users"} |-> [disabled |-> Bool(FALSE), delay |-> Num(0)]])
SlowProfile ==
    Profile("slow", <<>>, <<>>, [k \in {"1"} |-> [delay |-> Num(7)]],
            [k \in {"users"} |-> [delay |-> Num(7)]])
OffProfile == Profile("off", <<1>>, <<>>, NoRouteEntries, NoRouteEntries)
ProfileNames == {"night", "slow", "off"}
Profiles ==
    [n \in ProfileNames |->
        IF n = "night" THEN NightProfile ELSE IF n = "slow" THEN SlowProfile ELSE OffProfile]

ProfileConfig ==
    [ServerConfig("a", 3000) EXCEPT !.routes = <<HelloRoute, SeqRoute>>,
                                    !.profiles = Profiles]
ProfilePatches == {[routes |-> <<SeqRoute>>, resources |-> <<UsersRes, PostsRes>>]}
ProfileRequests == {AnySeq, PostUser}

InitProfile ==
    \E cfg \in {ProfileConfig} :
    \E mk \in {createMockServer(cfg, 0)} :
        /\ srv = [o \in Objs |-> IF o = 1 THEN Up(mk.server, 1) ELSE BlankServer]
        /\ nServers = 1
        /\ listeners = <<Listening(1, cfg.port)>>
        /\ calls = {}
        /\ instances = [i \in {"a"} |-> 1]
        /\ persisted = [i \in {"a"} |-> cfg]
        /\ uuidCtr = mk.ctr /\ NothingAside
        /\ last = Did("init", NoObj, NoId, "ok")

NextProfile ==
    \/ \E idx \in {0, 1} : PatchRouteOverride("a", idx, [delay |-> Num(5)])
    \/ PatchResourceOverride("a", "users", [error |-> Num(100)])
    \/ \E name \in ProfileNames \cup {"none"} : ActivateProfile("a", name)
    \/ DeactivateProfile("a")
    \/ \E incoming \in ProfilePatches : PatchServer("a", incoming)
    \/ \E req \in ProfileRequests : Request(1, req, 0, 1, TRUE)
    \/ StopInstance("a", FALSE)
    \/ \E c \in calls : StopClosed(c)

SpecProfile == InitProfile /\ [][NextProfile]_vars

Range(seq) == {seq[i] : i \in 1..Len(seq)}
\* overrides.routes read under its numeric keys.
ByIndex(routes) ==
    [i \in {ParseInt(k) : k \in DOMAIN routes} |->
        routes[CHOOSE k \in DOMAIN routes : ParseInt(k) = i]]
Disabled(entry) == "disabled" \in DOMAIN entry /\ entry.disabled = Bool(TRUE)

\* The live map holds exactly the profile's entries: every override of the
\* profile under its key, with disabled:true set on it when the key is also
\* listed as disabled, and a bare disabled:true for the other disabled keys.
HoldsProfile(map, entries, disabled) ==
    /\ DOMAIN map = (DOMAIN entries) \cup disabled
    /\ \A k \in (DOMAIN entries) \ disabled : map[k] = entries[k]
    /\ \A k \in (DOMAIN entries) \cap disabled :
          map[k] = [f \in (DOMAIN entries[k]) \cup {"disabled"} |->
                       IF f = "disabled" THEN Bool(TRUE) ELSE entries[k][f]]
    /\ \A k \in disabled \ DOMAIN entries : map[k] = [disabled |-> Bool(TRUE)]

\* The same with every override of the profile found unchanged under its key.
HoldsProfileVerbatim(map, entries, disabled) ==
    /\ DOMAIN map = (DOMAIN entries) \cup disabled
    /\ \A k \in DOMAIN entries : map[k] = entries[k]
    /\ \A k \in disabled : Disabled(map[k])

\* C4 (amended): activating profile P sets the active-profile pointer to P
\* and replaces the live override maps of the running instance: afterwards
\* they hold exactly P's entries, each key of P.overrides.routes /
\* P.overrides.resources mapping to that override, with disabled:true set
\* on it when the key is also in P.disabledRoutes / P.disabledResources,
\* and every other disabled index or name mapping to disabled:true alone;
\* nothing that was in the maps before survives.
C4_ActivateReplacesOverrides ==
    [][(last'.op = "activate" /\ last'.result = "ok")
        => LET P == persisted[last'.id].profiles[last'.arg]
           IN  /\ persisted'[last'.id].activeProfile = Str(last'.arg)
               /\ LiveInstance(last'.id)
                  => /\ HoldsProfile(srv'[instances[last'.id]].routeOverrides,
                                     ByIndex(P.overrides.routes), Range(P.disabledRoutes))
                     /\ HoldsProfile(srv'[instances[last'.id]].resourceOverrides,
                                     P.overrides.resources, Range(P.disabledResources))]_vars

\* C4 as stated: after the activation each key of P.overrides.routes /
\* P.overrides.resources maps to that override and each disabled index or
\* name has disabled:true.
C4_AsStated ==
    [][(last'.op = "activate" /\ last'.result = "ok")
        => LET P == persisted[last'.id].profiles[last'.arg]
           IN  /\ persisted'[last'.id].activeProfile = Str(last'.arg)
               /\ LiveInstance(last'.id)
                  => /\ HoldsProfileVerbatim(srv'[instances[last'.id]].routeOverrides,
                                             ByIndex(P.overrides.routes),
                                             Range(P.disabledRoutes))
                     /\ HoldsProfileVerbatim(srv'[instances[last'.id]].resourceOverrides,
                                             P.overrides.resources,
                                             Range(P.disabledResources))]_vars

\* "night" was activated on an instance that had other overrides: route 0
\* carries the profile's delay together with disabled:true, the ad hoc
\* override of the resource is gone.
C4_Witness ==
    /\ last.op = "activate" /\ last.arg = "night" /\ last.dirty
    /\ srv[1].routeOverrides[0] = [delay |-> Num(7), disabled |-> Bool(TRUE)]
    /\ srv[1].routeOverrides[1] = [error |-> Num(100)]
    /\ srv[1].resourceOverrides["users"] = [disabled |-> Bool(TRUE), delay |-> Num(0)]
    /\ persisted["a"].activeProfile = Str("night")

\* C5: deactivating the active profile unsets the active-profile pointer
\* and leaves both live override maps empty, so that neither an override
\* set before the activation nor one of the profile is in effect.
C5_DeactivateClearsOverrides ==
    [][(last'.op = "deactivate" /\ last'.result = "ok")
        => /\ persisted'[last'.id].activeProfile = Undefined
           /\ LiveInstance(last'.id)
              => /\ srv'[instances[last'.id]].routeOverrides = NoOverrides
                 /\ srv'[instances[last'.id]].resourceOverrides = NoOverrides]_vars

\* A profile was active and overrides were live when the deactivation ran.
C5_Witness ==
    /\ last.op = "deactivate" /\ last.result = "ok" /\ last.dirty /\ last.o = 1
    /\ ~Overridden(srv[1])
    /\ persisted["a"].activeProfile = Undefined

\* The collection a resource config seeds when its seed carries a literal id.
FreshCollection(rc) == [k \in {StringOf(rc.seed.id)} |-> rc.seed]

\* C6: reload(newConfig) leaves the instance with the routes and resources
\* of newConfig, every resource of newConfig seeded afresh, both override
\* maps empty and every sequence cursor at its initial position.
C6_ReloadResets ==
    [][(last'.op = "reload" /\ last'.result = "reloaded")
        => LET S == srv'[last'.o]
               cfg == persisted'[last'.id]
           IN  /\ S.currentConfig = cfg
               /\ Len(S.routes) = Len(cfg.routes)
               /\ \A i \in 1..Len(cfg.routes) :
                     /\ S.routes[i].path = cfg.routes[i].path
                     /\ S.routes[i].response = cfg.routes[i].response
               /\ Len(S.resources) = Len(cfg.resources)
               /\ \A i \in 1..Len(cfg.resources) :
                     /\ S.resources[i].name = cfg.resources[i].name
                     /\ S.resources[i].basePath = cfg.resources[i].basePath
                     /\ S.store.data[cfg.resources[i].name] = FreshCollection(cfg.resources[i])
               /\ S.routeOverrides = NoOverrides
               /\ S.resourceOverrides = NoOverrides
               /\ \A i \in DOMAIN S.cursors : S.cursors[i] = 0]_vars

\* The reload ran on an instance with live overrides, an advanced sequence
\* cursor and a record created over HTTP.
C6_Witness ==
    /\ last.op = "reload" /\ last.result = "reloaded" /\ last.dirty
    /\ Len(srv[1].routes) = 1 /\ Len(srv[1].resources) = 2
    /\ ~Overridden(srv[1]) /\ ~Advanced(srv[1]) /\ ~Modified(srv[1])

(***************************************************************************)
(* SpecLife: two MockServer objects made by createMockServer for the same  *)
(* port and driven directly by start() and stop(), each call awaited       *)
(* before the next call on the same object.  Object 1 may carry overrides  *)
(* set through its override maps; a running object serves requests.        *)
(***************************************************************************)
LifeConfig == ServerConfig("a", 3000)
LifeOverrides == {NoOverrides, [k \in {0} |-> [delay |-> Num(5)]]}
LifeRequests == {PostUser, DeleteUser}

\* No start() or stop() of object o is in progress.
Idle(o) == \A c \in calls : c.o # o

InitLife ==
    \E ro \in LifeOverrides :
    \E mk \in {createMockServer(LifeConfig, 0)} :
        /\ srv = [o \in Objs |-> IF o = 1 THEN [mk.server EXCEPT !.routeOverrides = ro]
                                 ELSE IF o = 2 THEN mk.server
                                 ELSE BlankServer]
        /\ nServers = 2
        /\ listeners = <<>>
        /\ calls = {}
        /\ instances = [i \in {} |-> NoObj]
        /\ persisted = [i \in {} |-> EmptyRecord]
        /\ uuidCtr = mk.ctr /\ NothingAside
        /\ last = Did("init", NoObj, NoId, "ok")

NextLife ==
    \/ \E o \in {1, 2} : Idle(o) /\ StartCall(o)
    \/ \E c \in calls : StartListening(c)
    \/ \E c \in calls : StartFailed(c)
    \/ \E o \in {1, 2} : Idle(o) /\ StopCall(o)
    \/ \E c \in calls : StopClosed(c)
    \/ \E o \in {1, 2}, req \in LifeRequests : Request(o, req, 0, 1, TRUE)

SpecLife == InitLife /\ [][NextLife]_vars

\* The lifecycle state of object o.
Phase(o) ==
    IF \E c \in calls : c.o = o /\ c.op = "start" THEN "starting"
    ELSE IF \E c \in calls : c.o = o /\ c.op = "stop" THEN "stopping"
    ELSE IF srv[o].running THEN "running"
    ELSE "stopped"

Cycle == {<<"stopped", "starting">>, <<"starting", "running">>,
          <<"running", "stopping">>, <<"stopping", "stopped">>}
\* The listener of a start() in progress cannot bind: the port is in use.
BindFails(o) ==
    \E c \in calls : c.o = o /\ c.op = "start" /\ PortBound(listeners[c.l].port)

\* start() on a running object and stop() on a stopped one change nothing.
NoOpCalls ==
    /\ (last'.op = "start" /\ Phase(last'.o) = "running")
       => /\ srv' = srv /\ listeners' = listeners /\ calls' = calls
    /\ (last'.op = "stop" /\ Phase(last'.o) = "stopped")
       => /\ srv' = srv /\ listeners' = listeners /\ calls' = calls

C8_RestartPreserves ==
    [][(last'.op \in {"start", "started", "stop", "stopped"})
        => \A o \in Objs : Owned(srv'[o]) = Owned(srv[o])]_vars

\* Object 1 listens on its second listener, the first one closed, and
\* still has the override and the records changed over HTTP before the stop.
C8_Witness ==
    /\ last.op = "started" /\ last.result = "ok" /\ last.o = 1
    /\ srv[1].running /\ srv[1].httpServer > 1
    /\ \E l \in 1..Len(listeners) : listeners[l].owner = 1 /\ listeners[l].state = "closed"
    /\ Overridden(srv[1]) /\ Modified(srv[1])

(***************************************************************************)
(* SpecMgr: the instance manager.  Three configs are saved, "a" and "b"    *)
(* for the same port and "c" for another; the dashboard starts "a" and     *)
(* "b" and stops and deletes servers by id, "zz" being an id nothing is    *)
(* saved under; the calls made for one id are awaited one after another.   *)
(***************************************************************************)
MgrConfigs == {ServerConfig("a", 3000), ServerConfig("b", 3000), ServerConfig("c", 3001)}
StartIds == {"a", "b"}
StopIds == {"a", "b", "zz"}

InitMgr ==
    /\ srv = [o \in Objs |-> BlankServer]
    /\ nServers = 0
    /\ listeners = <<>>
    /\ calls = {}
    /\ instances = [i \in {} |-> NoObj]
    /\ persisted = [i \in {cfg.id : cfg \in MgrConfigs} |->
                       CHOOSE cfg \in MgrConfigs : cfg.id = i]
    /\ uuidCtr = 0 /\ NothingAside
    /\ last = Did("init", NoObj, NoId, "ok")

\* A manager call for id is in progress.
Busy(id) == \E c \in calls : c.id = id

NextMgr ==
    \/ \E id \in StartIds : ~Busy(id) /\ StartInstance(id)
    \/ \E c \in calls : LoadConfig(c)
    \/ \E c \in calls : StartListening(c)
    \/ \E c \in calls : StartFailed(c)
    \/ \E id \in StopIds, del \in BOOLEAN : ~Busy(id) /\ StopInstance(id, del)
    \/ \E c \in calls : StopClosed(c)

SpecMgr == InitMgr /\ [][NextMgr]_vars

\* Another id has a registered, running instance whose listener is bound to
\* the port of id's saved config.
PortTaken(id) ==
    /\ id \in DOMAIN persisted
    /\ \E other \in (DOMAIN instances) \ {id} :
          LET S == srv[instances[other]]
          IN  /\ S.running /\ S.httpServer # NoListener
              /\ listeners[S.httpServer].state = "listening"
              /\ listeners[S.httpServer].port = persisted[id].port

\* C9: when startInstance(id) reaches its port check while another id's
\* instance runs on the port of id's config, it rejects with the conflict
\* error: no MockServer and no listener is created for it, nothing is
\* registered for id, and the registry and every instance stay as they were.
C9_PortConflictRejects ==
    [][(last'.op = "startInstance"
          /\ last'.result \in {"notfound", "conflict", "pending"}
          /\ PortTaken(last'.id))
        => /\ last'.result = "conflict"
           /\ listeners' = listeners
           /\ nServers' = nServers
           /\ srv' = srv
           /\ instances' = instances]_vars

\* startInstance("b") was rejected while "a" runs on the port both share.
C9_Witness ==
    /\ last.op = "startInstance" /\ last.id = "b" /\ last.result = "conflict"
    /\ "a" \in DOMAIN instances /\ srv[instances["a"]].running
    /\ "b" \notin DOMAIN instances
    /\ \A l \in 1..Len(listeners) : listeners[l].owner = instances["a"]

\* C10: stopInstance(id) and deleteInstance(id) for an id without a
\* registered instance do not throw and change neither the registry, nor
\* any instance, nor the saved config of any other id; afterwards id is
\* still unregistered (and, after a delete, has no saved config), so the
\* same call again changes nothing.
C10_UnknownIdNoOp ==
    [][(last'.op \in {"stopInstance", "deleteInstance"}
          /\ last'.id \notin DOMAIN instances)
        => /\ last'.result # "threw"
           /\ instances' = instances
           /\ srv' = srv /\ listeners' = listeners /\ calls' = calls
           /\ \A other \in (DOMAIN persisted) \ {last'.id} :
                 other \in DOMAIN persisted' /\ persisted'[other] = persisted[other]
           /\ (last'.id \notin DOMAIN persisted \/ last'.op = "stopInstance")
              => persisted' = persisted
           /\ last'.op = "deleteInstance" => last'.id \notin DOMAIN persisted']_vars

\* deleteInstance("zz") ran while an instance was registered and the three
\* configs were saved, and left them alone.
C10_Witness ==
    /\ last.op = "deleteInstance" /\ last.id = "zz" /\ last.result = "noop"
    /\ DOMAIN instances # {}
    /\ DOMAIN persisted = {"a", "b", "c"}

(***************************************************************************)
(* SpecMatch: one running instance whose route list is three routes of     *)
(* MatchRoutes in any order, in front of the resource "users".             *)
(***************************************************************************)
MatchRoutes ==
    {RouteConfig("get", <<"a", ":id">>, Str("r1")),
     RouteConfig("*", <<":id", "b">>, Str("r2")),
     RouteConfig("get", <<":name", "x", ":id">>, Str("r3")),
     RouteConfig("post", <<"a", "b">>, Str("r4")),
     RouteConfig("", <<"users", ":id">>, Str("r5"))}
MatchPaths ==
    {<<"a", "b">>, <<"a", "%41">>, <<"a", "%">>, <<"users", "1">>, <<"users">>,
     <<"k", "x", "7">>, <<"a", "b", "c">>}
MatchRequests == {Req(m, p, Undefined) : m \in {"GET", "POST", "DELETE"}, p \in MatchPaths}

InitMatch ==
    \E r1 \in MatchRoutes, r2 \in MatchRoutes, r3 \in MatchRoutes :
      /\ r1 # r2 /\ r1 # r3 /\ r2 # r3
      /\ \E cfg \in {[ServerConfig("a", 3000) EXCEPT !.routes = <<r1, r2, r3>>]} :
         \E mk \in {createMockServer(cfg, 0)} :
            /\ srv = [o \in Objs |-> IF o = 1 THEN Up(mk.server, 1) ELSE BlankServer]
            /\ nServers = 1
            /\ listeners = <<Listening(1, cfg.port)>>
            /\ calls = {}
            /\ instances = [i \in {"a"} |-> 1]
            /\ persisted = [i \in {"a"} |-> cfg]
            /\ uuidCtr = mk.ctr /\ NothingAside
            /\ last = Did("init", NoObj, NoId, "ok")

NextMatch == \E req \in MatchRequests : Request(1, req, 0, 1, TRUE)

SpecMatch == InitMatch /\ [][NextMatch]_vars

\* The route matches the request structurally: its method is the request's
\* or '*', it has as many segments, and every literal segment is equal.
StructMatch(route, req) ==
    /\ route.method = req.method \/ route.method = "*"
    /\ Len(route.path) = Len(req.path)
    /\ \A i \in 1..Len(route.path) : IsParam(route.path[i]) \/ route.path[i] = req.path[i]

\* C11: a request that reaches the matcher is answered by the lowest-index
\* route that matches it structurally, with every :param segment bound to
\* the (percent-decoded) request segment at its position; a resource
\* answers only when no route matches.  Requests whose matching throws on
\* a malformed segment are answered by no route.
C11_FirstMatchAnswers ==
    (last.op = "request" /\ ReachesMatcher(srv[last.o], last.req)
        /\ last.out.branch # "throw")
    => LET S == srv[last.o]
           req == last.req
           hits == {i \in 1..Len(S.routes) : StructMatch(S.routes[i], req)}
       IN  /\ hits # {} =>
                /\ last.out.route \in hits
                /\ \A j \in hits : last.out.route <= j
                /\ \A i \in 1..Len(req.path) :
                      IsParam(S.routes[last.out.route].path[i])
                      => /\ ParamNames[S.routes[last.out.route].path[i]]
                               \in DOMAIN last.out.params
                         /\ last.out.params[ParamNames[S.routes[last.out.route].path[i]]]
                               = Decode(req.path[i])
                /\ last.out.crud = "none"
           /\ hits = {} => /\ last.out.route = 0
                           /\ last.out.branch \in {"resource", "notfound"}

\* The second of three routes answered although the third matches as well,
\* and its parameter was bound from the first segment.
C11_Witness ==
    /\ last.op = "request" /\ last.out.route = 2
    /\ ~StructMatch(srv[1].routes[1], last.req)
    /\ StructMatch(srv[1].routes[3], last.req)
    /\ last.out.params = [n \in {"id"} |-> "a"]

(***************************************************************************)
(* SpecMode: one running instance with one route, '*' /m/:id, whose        *)
(* rules, sequence, responses and response are drawn in the initial state. *)
(***************************************************************************)
RouteRule(when, status, response) == [when |-> when, status |-> status, response |-> response]
NoWhen == [k \in {} |-> ""]
\* [when query.env = prod -> 500, default -> 200]
EnvRules ==
    <<RouteRule([k \in {"query.env"} |-> "prod"], 500, Str("down")),
      RouteRule(NoWhen, 200, Str("fine"))>>
\* Two conditional rules and no default; the second has two conditions.
StrictRules ==
    <<RouteRule([k \in {"query.env"} |-> "prod"], 500, Str("down")),
      RouteRule([k \in {"body.n", "params.id"} |-> IF k = "body.n" THEN "1" ELSE "7"],
                0, Str("seven")),
      RouteRule([k \in {"params.id"} |-> "7"], 202, Str("late"))>>
\* [A, B (sticky), C]
StickySteps ==
    <<SequenceStep(201, Str("A"), FALSE), SequenceStep(0, Str("B"), TRUE),
      SequenceStep(0, Str("C"), FALSE)>>
PlainSteps == <<SequenceStep(0, Str("A"), FALSE), SequenceStep(202, Str("B"), FALSE)>>

ModeRules == {<<>>, EnvRules, StrictRules}
ModeSequences == {<<>>, StickySteps, PlainSteps}
ModeResponses == {<<>>, <<Str("p"), Str("q")>>}
ModeResponse == {Undefined, Str("s")}

ModeConfig(rules, steps, responses, response) ==
    [ServerConfig("a", 3000) EXCEPT
        !.routes = <<[RouteConfig("*", <<"m", ":id">>, response) EXCEPT
                        !.status = 203, !.rules = rules, !.sequence = steps,
                        !.responses = responses]>>,
        !.resources = <<>>]

ModeRequests ==
    {[Req(m, <<"m", id>>, body) EXCEPT !.query = q] :
        m \in {"GET", "POST"}, id \in {"7", "8"},
        body \in {Undefined, [n |-> Num(1)]},
        q \in {EmptyRecord, [env |-> "prod"], [env |-> "dev"]}}
Picks == {1, 2}

InitMode ==
    \E rules \in ModeRules, steps \in ModeSequences, responses \in ModeResponses,
       response \in ModeResponse :
      \E cfg \in {ModeConfig(rules, steps, responses, response)} :
      \E mk \in {createMockServer(cfg, 0)} :
        /\ srv = [o \in Objs |-> IF o = 1 THEN Up(mk.server, 1) ELSE BlankServer]
        /\ nServers = 1
        /\ listeners = <<Listening(1, cfg.port)>>
        /\ calls = {}
        /\ instances = [i \in {"a"} |-> 1]
        /\ persisted = [i \in {"a"} |-> cfg]
        /\ uuidCtr = mk.ctr /\ NothingAside
        /\ last = Did("init", NoObj, NoId, "ok")

NextMode == \E req \in ModeRequests, pick \in Picks : Request(1, req, 0, pick, TRUE)

SpecMode == InitMode /\ [][NextMode]_vars

\* The configured route that answered the last request.
AnsweredRoute == srv[last.o].currentConfig.routes[last.out.route]
Responses(list) == {list[i].response : i \in 1..Len(list)}

C13_SequenceCursor ==
    [][(last'.op = "request" /\ last'.out.branch = "route" /\ last'.out.mode = "sequence")
        => LET o == last'.o
               idx == last'.out.route - 1
               steps == srv[o].currentConfig.routes[idx + 1].sequence
               c == IF idx \in DOMAIN srv[o].cursors THEN srv[o].cursors[idx] ELSE 0
               n == Len(steps)
           IN  /\ last'.nth = 1 => c = 0
               /\ last'.out.body = steps[c + 1].response
               /\ srv'[o].cursors[idx] =
                      (IF steps[c + 1].sticky THEN c ELSE IF c < n - 1 THEN c + 1 ELSE n - 1)
               /\ srv'[o].cursors[idx] <= n - 1
               /\ steps = StickySteps
                  => last'.out.body = (IF last'.nth = 1 THEN Str("A") ELSE Str("B"))]_vars

\* The fourth request in a row to the route with steps [A, B (sticky), C]
\* was a POST and was answered B.
C13_Witness ==
    /\ last.op = "request" /\ last.out.mode = "sequence" /\ last.nth = 4
    /\ last.req.method = "POST"
    /\ AnsweredRoute.sequence = StickySteps
    /\ last.out.body = Str("B")
    /\ srv[1].cursors[0] = 1

\* What a when-key of the model's rules reads from the request.
WhenValue(k, req) ==
    IF k = "query.env" THEN (IF "env" \in DOMAIN req.query THEN req.query.env ELSE "undefined")
    ELSE IF k = "params.id" THEN req.path[2]
    ELSE IF IsObject(req.body) /\ "n" \in DOMAIN req.body
         THEN Digits[req.body.n.num + 1] ELSE "undefined"
WhenHolds(rule, req) == \A k \in DOMAIN rule.when : WhenValue(k, req) = rule.when[k]

\* C14: in rules mode the first rule, in declaration order, whose every
\* when-key stringifies equal to its literal (or whose when is absent or
\* empty) gives the status and the response; when no rule matches, the
\* route's base status and response answer.  With rules [when query.env =
\* prod -> 500, default -> 200], ?env=prod gets 500 and a request without
\* it gets 200.
C14_FirstRuleWins ==
    (last.op = "request" /\ last.out.branch = "route" /\ last.out.mode = "rules")
    => LET rc == AnsweredRoute
           req == last.req
           hits == {i \in 1..Len(rc.rules) : WhenHolds(rc.rules[i], req)}
           first == CHOOSE i \in hits : \A j \in hits : i <= j
       IN  /\ hits # {} =>
                /\ last.out.rule = first
                /\ last.out.status = (IF rc.rules[first].status # 0
                                      THEN rc.rules[first].status ELSE rc.status)
                /\ last.out.body = rc.rules[first].response
           /\ hits = {} => /\ last.out.rule = 0
                           /\ last.out.status = rc.status
                           /\ last.out.body = rc.response
           /\ rc.rules = EnvRules =>
                last.out.status = (IF "env" \in DOMAIN req.query /\ req.query.env = "prod"
                                   THEN 500 ELSE 200)

\* The second of three rules answered: the first does not match, the third
\* matches as well, and the body's number 1 was compared as the string "1".
C14_Witness ==
    /\ last.op = "request" /\ last.out.mode = "rules" /\ last.out.rule = 2
    /\ AnsweredRoute.rules = StrictRules
    /\ WhenHolds(StrictRules[3], last.req)
    /\ last.req.body = [n |-> Num(1)]
    /\ last.out.body = Str("seven") /\ last.out.status = 203

(***************************************************************************)
(* SpecPipe: one instance started by the manager, with or without a proxy  *)
(* target, serving requests to every branch of the pipeline while the      *)
(* dashboard patches its overrides and its proxy target.                   *)
(***************************************************************************)
ItemRoute == RouteConfig("get", <<"item", ":id">>, Str("it"))
ProxyTargets == {Undefined, Str("http://upstream")}
PipeConfig(target) ==
    [ServerConfig("a", 3000) EXCEPT !.routes = <<HelloRoute, ItemRoute>>,
                                    !.proxyTarget = target]
GetItemBad == Req("GET", <<"item", "%">>, Undefined)
GetUserBad == Req("GET", <<"users", "%">>, Undefined)
PipeRequests ==
    {GetHello, GetItemBad, GetUsers, PostUser, DeleteUser, GetUserBad, Preflight, ResetReq,
     GetNowhere}
PipeOverrides == {[disabled |-> Bool(TRUE)], [passthrough |-> Bool(TRUE)], [error |-> Num(100)]}
PipePatches == {[proxyTarget |-> Str("http://upstream")], [proxyTarget |-> Null]}

InitPipe ==
    \E target \in ProxyTargets :
      \E cfg \in {PipeConfig(target)} :
      \E mk \in {createMockServer(cfg, 0)} :
        /\ srv = [o \in Objs |->
                     IF o = 1
                     THEN [Up(mk.server, 1) EXCEPT !.onProxyResponse = Truthy(cfg.proxyTarget)]
                     ELSE BlankServer]
        /\ nServers = 1
        /\ listeners = <<Listening(1, cfg.port)>>
        /\ calls = {}
        /\ instances = [i \in {"a"} |-> 1]
        /\ persisted = [i \in {"a"} |-> cfg]
        /\ uuidCtr = mk.ctr /\ NothingAside
        /\ last = Did("init", NoObj, NoId, "ok")

NextPipe ==
    \/ \E req \in PipeRequests, up \in BOOLEAN : Request(1, req, 0, 1, up)
    \/ \E body \in PipeOverrides : PatchRouteOverride("a", 0, body)
    \/ \E body \in PipeOverrides : PatchResourceOverride("a", "users", body)
    \/ \E incoming \in PipePatches : PatchServer("a", incoming)

SpecPipe == InitPipe /\ [][NextPipe]_vars

\* The live override of the matched route or resource has passthrough:true
\* and a proxy target is configured.
MatchedPassthrough(S, req) ==
    /\ MatchedKind(S, req) # "none"
    /\ "passthrough" \in DOMAIN MatchedOverride(S, req)
    /\ MatchedOverride(S, req).passthrough = Bool(TRUE)
    /\ Truthy(S.currentConfig.proxyTarget)

\* C15: a request whose matched route or resource has a live override with
\* passthrough:true, while a proxy target is configured, is not answered by
\* the route's response or the CRUD handler: it goes to the upstream
\* through the proxy branch and the store is untouched (a disabled
\* override still answers 503 first).  Matched routes and resources
\* without passthrough are never forwarded.
C15_PassthroughForwards ==
    [][(last'.op = "request" /\ MatchedKind(srv[last'.o], last'.req) # "none")
        => LET S == srv[last'.o]
               req == last'.req
           IN  /\ MatchedPassthrough(S, req)
                  => /\ ~last'.out.resolved /\ last'.out.crud = "none"
                     /\ srv'[last'.o].store = S.store
                     /\ ~MatchedDisabled(S, req)
                        => last'.out.branch = "proxy" /\ last'.out.proxied
               /\ ~MatchedPassthrough(S, req) => ~last'.out.proxied]_vars

\* A POST to the passed-through resource went to the upstream while the
\* route of the same instance, not passed through, is still mocked.
C15_Witness ==
    /\ last.op = "request" /\ last.req = PostUser
    /\ last.out.branch = "proxy" /\ last.out.status = 200
    /\ MatchedPassthrough(srv[1], last.req)
    /\ ~MatchedPassthrough(srv[1], GetHello)
    /\ ~StoreHas(srv[1].store, "users", "2")

\* C16: every request handled by an instance emits exactly one log entry to
\* the instance's log listeners, whichever branch answers it, the 500 of an
\* internal failure included.
C16_EveryRequestLogged ==
    last.op = "request" => last.out.logged

\* C17: a request whose handling throws is answered 500 and nothing else
\* happens: the instance stays running and listening, its config, routes,
\* records, overrides and cursors are what they were, no other instance and
\* nothing of the manager changes, and the next request is served from
\* that unchanged state.
C17_ThrowIsContained ==
    [][(last'.op = "request" /\ last'.out.branch = "throw")
        => /\ last'.out.status = 500
           /\ srv' = srv /\ listeners' = listeners /\ calls' = calls
           /\ instances' = instances /\ persisted' = persisted
           /\ uuidCtr' = uuidCtr
           /\ srv'[last'.o].running
           /\ \E l \in 1..Len(listeners') :
                 listeners'[l].state = "listening" /\ listeners'[l].owner = last'.o]_vars

\* After a record was added, a request with a malformed item id failed with
\* 500, and the request after it listed the collection, record included.
C17_Witness ==
    /\ last.op = "request" /\ last.arg = "after-throw"
    /\ last.req = GetUsers /\ last.out.status = 200 /\ last.out.total = 2
    /\ StoreHas(srv[1].store, "users", "2")
    /\ srv[1].running

\* The request matches no route and no resource of the instance.
Unmatched(S, req) == ReachesMatcher(S, req) /\ MatchedKind(S, req) = "none"

\* C18: a request that matches no route and no resource is forwarded if and
\* only if a proxy target is configured, with a Recording emitted once the
\* upstream has answered, and is answered 404 without one; a request that
\* matches a route or resource without passthrough is never forwarded and
\* never produces a Recording.
C18_ProxyIffTarget ==
    (last.op = "request" /\ last.out.branch # "throw")
    => LET S == srv[last.o]
           req == last.req
           target == Truthy(S.currentConfig.proxyTarget)
       IN  /\ Unmatched(S, req)
              => /\ last.out.proxied = target
                 /\ (target /\ last.out.status # 502) => last.out.recorded
                 /\ ~target => last.out.status = 404 /\ ~last.out.recorded
           /\ (MatchedKind(S, req) # "none" /\ ~MatchedPassthrough(S, req))
              => ~last.out.proxied /\ ~last.out.recorded

\* C19: when the upstream call of a proxied request throws or times out the
\* client gets 502 and no Recording is emitted; a Recording is emitted only
\* for a request that was forwarded and whose upstream answered.
C19_FailedUpstreamNotRecorded ==
    last.op = "request"
    => /\ (last.out.proxied /\ last.result = "upstream-failed")
          => last.out.status = 502 /\ ~last.out.recorded
       /\ last.out.recorded => last.out.proxied /\ last.result = "ok"

\* The upstream failed for an unmatched request of an instance whose
\* recorder is wired: 502, nothing recorded.
C19_Witness ==
    /\ last.op = "request" /\ last.req = GetNowhere
    /\ last.result = "upstream-failed" /\ last.out.status = 502
    /\ srv[1].onProxyResponse /\ ~last.out.recorded

(***************************************************************************)
(* SpecSeed: one running instance whose resource /users is seeded with     *)
(* five records.  The seed template is drawn in the initial state: without *)
(* an id, with an id generated per record, or with a constant id.          *)
(***************************************************************************)
NoIdSeed == [name |-> Str("a")]
FakerIdSeed == [id |-> Str(FakerIdToken), name |-> Str("a")]
ConstIdSeed == [id |-> Num(1), name |-> Str("a")]
SeedTemplates == {NoIdSeed, FakerIdSeed, ConstIdSeed}
\* count: 5 and count left out, which defaults to 5.
SeedCounts == {Num(DefaultCount), Undefined}

SeedConfig(seed, count) ==
    [ServerConfig("a", 3000) EXCEPT
        !.resources = <<[UsersRes EXCEPT !.seed = seed, !.count = count]>>]

DeleteRecord(id) == Req("DELETE", <<"users", id>>, Undefined)
SeedRequests ==
    {GetUsers, PostAnon, ResetReq,
     DeleteRecord("u1"), DeleteRecord("u2"), DeleteRecord("u6"), DeleteRecord("1")}

InitSeed ==
    \E seed \in SeedTemplates, count \in SeedCounts :
      \E cfg \in {SeedConfig(seed, count)} :
      \E mk \in {createMockServer(cfg, 0)} :
        /\ srv = [o \in Objs |-> IF o = 1 THEN Up(mk.server, 1) ELSE BlankServer]
        /\ nServers = 1
        /\ listeners = <<Listening(1, cfg.port)>>
        /\ calls = {}
        /\ instances = [i \in {"a"} |-> 1]
        /\ persisted = [i \in {"a"} |-> cfg]
        /\ uuidCtr = mk.ctr /\ NothingAside
        /\ last = Did("init", NoObj, NoId, "ok")

NextSeed == \E req \in SeedRequests : RequestWithin(1, req, 0, 1, TRUE, MaxSeedUuid)

SpecSeed == InitSeed /\ [][NextSeed]_vars

\* The ids of the records of /users, and whether the resource's seed
\* template gives its records no id.
UserIds == DOMAIN srv[1].store.data["users"]
SeededWithoutId == "id" \notin DOMAIN srv[1].currentConfig.resources[1].seed
DidRequest(req) == last.op = "request" /\ last.req = req

\* C20 as stated, for any seed template: the resource starts with five
\* records, GET reports the number of records, a successful DELETE leaves
\* one fewer, and POST /__reset leaves five records whose ids are all
\* different from the ids before it.
C20_AsStated ==
    [][/\ last.op = "init" => Cardinality(UserIds) = DefaultCount
       /\ (DidRequest(GetUsers))' => last'.out.total = Cardinality(UserIds')
       /\ (last'.op = "request" /\ last'.out.crud = "remove" /\ last'.out.status = 204)
          => Cardinality(UserIds') = Cardinality(UserIds) - 1
       /\ (DidRequest(ResetReq))'
          => Cardinality(UserIds') = DefaultCount /\ UserIds' \cap UserIds = {}]_vars

\* C20: for a resource seeded with count=5 from a template without an id,
\* GET basePath reports total=5; after one successful DELETE basePath/:id
\* it reports one fewer (4); after POST /__reset it reports total=5 again
\* and the five ids are a fresh set, none of them an id from before the
\* reset.
C20_SeedDeleteReset ==
    [][SeededWithoutId
       => /\ last.op = "init" => Cardinality(UserIds) = DefaultCount
          /\ (DidRequest(GetUsers))' => last'.out.total = Cardinality(UserIds')
          /\ (last'.op = "request" /\ last'.out.crud = "remove" /\ last'.out.status = 204)
             => Cardinality(UserIds') = Cardinality(UserIds) - 1
          /\ (DidRequest(ResetReq))'
             => Cardinality(UserIds') = DefaultCount /\ UserIds' \cap UserIds = {}]_vars

\* A record was deleted, the store was reset, and GET /users reports five
\* records again, under the five ids drawn by the reset.
C20_Witness ==
    /\ SeededWithoutId
    /\ DidRequest(GetUsers) /\ last.out.total = DefaultCount
    /\ UserIds = {"u6", "u7", "u8", "u9", "u10"}

(***************************************************************************)
(* SpecStore: one running instance with the resources /users (two seed     *)
(* items from a template drawn in the initial state) and /posts, serving   *)
(* reads, creates, updates, patches, removes and resets.                   *)
(***************************************************************************)
StoreSeeds == {NoIdSeed, FakerIdSeed, ConstIdSeed}
StoreConfig(seed) ==
    [ServerConfig("a", 3000) EXCEPT
        !.resources = <<[UsersRes EXCEPT !.seed = seed, !.count = Num(2)], PostsRes>>]

\* Bodies of PUT and PATCH: without the id, with the id as a string, and
\* with another id as a number.
WriteBodies ==
    {[name |-> Str("b")], [id |-> Str("1"), name |-> Str("b")],
     [id |-> Num(2), name |-> Str("b")]}
\* Bodies of POST: the numeric ids 1 and 0.
CreateBodies == {[id |-> Num(1), name |-> Str("z")], [id |-> Num(0)]}
\* Item ids addressed: the constant seed id (also the id POST creates),
\* the first generated seed id, and an id no record ever has.
ItemIds == {"1", "u1", "9"}

StoreRequests ==
    {GetUsers, ResetReq, DeleteRecord("1"), DeleteRecord("u1"), DeleteRecord("9"),
     Req("DELETE", <<"posts", "1">>, Undefined)}
    \cup {Req("GET", <<"users", id>>, Undefined) : id \in {"1", "9"}}
    \cup {Req("POST", <<"users">>, b) : b \in CreateBodies}
    \cup {Req(m, <<"users", id>>, b) : m \in {"PUT", "PATCH"}, id \in ItemIds, b \in WriteBodies}

InitStore ==
    \E seed \in StoreSeeds :
      \E cfg \in {StoreConfig(seed)} :
      \E mk \in {createMockServer(cfg, 0)} :
        /\ srv = [o \in Objs |-> IF o = 1 THEN Up(mk.server, 1) ELSE BlankServer]
        /\ nServers = 1
        /\ listeners = <<Listening(1, cfg.port)>>
        /\ calls = {}
        /\ instances = [i \in {"a"} |-> 1]
        /\ persisted = [i \in {"a"} |-> cfg]
        /\ uuidCtr = mk.ctr /\ NothingAside
        /\ last = Did("init", NoObj, NoId, "ok")

NextStore == \E req \in StoreRequests : RequestWithin(1, req, 0, 1, TRUE, MaxStoreUuid)

SpecStore == InitStore /\ [][NextStore]_vars

\* The store of the instance, and a record without its id field.
TheStore == srv[1].store
SansId(rec, idField) == [f \in (DOMAIN rec) \ {idField} |-> rec[f]]
\* The seed items of a collection that carry an id, by key.
SeedKeys(st, name) ==
    {StringOf(Field(st.meta[name].seedData[i], st.meta[name].idField)) :
        i \in {j \in 1..Len(st.meta[name].seedData) :
                  ~NeedsUuid(st.meta[name].seedData[j], st.meta[name].idField)}}
SeedItemOf(st, name, key) ==
    LET sd == st.meta[name].seedData
        last_i == CHOOSE i \in 1..Len(sd) :
                     /\ StringOf(Field(sd[i], st.meta[name].idField)) = key
                     /\ \A j \in (i + 1)..Len(sd) :
                           NeedsUuid(sd[j], st.meta[name].idField)
                           \/ StringOf(Field(sd[j], st.meta[name].idField)) # key
    IN  sd[last_i]
AnonSeeds(st, name) ==
    {i \in 1..Len(st.meta[name].seedData) :
        NeedsUuid(st.meta[name].seedData[i], st.meta[name].idField)}

\* C21: POST /__reset restores every collection to its seed set whatever
\* was created, updated, patched or removed before: a seed item that has an
\* id is back under that id with its seed values and its id unchanged,
\* every seed item without an id is back with its seed values under a newly
\* drawn id, and nothing else is in the collection.
C21_ResetRestoresSeed ==
    [][(DidRequest(ResetReq))'
        => \A name \in DOMAIN TheStore.data :
             LET idField == TheStore.meta[name].idField
                 sd == TheStore.meta[name].seedData
                 before == TheStore.data[name]
                 after == TheStore'.data[name]
                 fresh == (DOMAIN after) \ SeedKeys(TheStore, name)
             IN  /\ TheStore'.meta = TheStore.meta
                 /\ SeedKeys(TheStore, name) \subseteq DOMAIN after
                 /\ \A k \in SeedKeys(TheStore, name) :
                       /\ after[k] = WithField(SeedItemOf(TheStore, name, k), idField, after[k][idField])
                       /\ StringOf(after[k][idField]) = k
                       /\ IsNum(after[k][idField])
                          = (IsNum(SeedItemOf(TheStore, name, k)[idField]) /\ k # "0")
                 /\ Cardinality(fresh) = Cardinality(AnonSeeds(TheStore, name))
                 /\ fresh \cap DOMAIN before = {}
                 /\ \A k \in fresh :
                       /\ after[k][idField] = Str(k)
                       /\ \E i \in AnonSeeds(TheStore, name) :
                             SansId(after[k], idField) = sd[i]]_vars

\* Seed records with generated ids were removed, patched and joined by a
\* created record; the reset brought the two seed records back under their
\* ids and nothing else, and the other collection is back as well.
C21_Witness ==
    /\ DidRequest(ResetReq)
    /\ srv[1].currentConfig.resources[1].seed = FakerIdSeed
    /\ DOMAIN TheStore.data["users"] = {"u1", "u2"}
    /\ TheStore.data["users"]["u1"].name = Str("a")
    /\ DOMAIN TheStore.data["posts"] = {"1"}

\* The request is a PUT to an item of /users.
IsPut(req) == req.method = "PUT" /\ Len(req.path) = 2 /\ req.path[1] = "users"

\* C22: PUT is idempotent: when a PUT to an existing item is followed by
\* the same PUT (same id, same body), the second is answered like the
\* first and leaves the stored record and the whole collection exactly as
\* the first left them.
C22_PutIdempotent ==
    [][(/\ last.op = "request" /\ IsPut(last.req) /\ last.out.status = 200
        /\ last'.op = "request" /\ last'.req = last.req)
        => /\ last'.out.status = 200
           /\ TheStore' = TheStore
           /\ StoreGet(TheStore', "users", last.req.path[2])
              = StoreGet(TheStore, "users", last.req.path[2])]_vars

\* A PUT whose body names another id replaced the record of item 1, which
\* is still filed under 1.
C22_Witness ==
    /\ last.op = "request" /\ last.req = Req("PUT", <<"users", "1">>, [id |-> Num(2), name |-> Str("b")])
    /\ last.out.status = 200
    /\ StoreGet(TheStore, "users", "1") = [id |-> Num(1), name |-> Str("b")]
    /\ ~StoreHas(TheStore, "users", "2")

\* C23: the id of a record keeps its scalar type (number or string)
\* through every write: whatever request is served, a record that is in
\* the collection before and after it has an id of the same type, also
\* when the body of an update or patch omits the id or carries it with
\* another type.
C23_IdTypeKept ==
    [][last'.op = "request"
        => \A k \in (DOMAIN TheStore.data["users"]) \cap (DOMAIN TheStore'.data["users"]) :
             IsNum(TheStore'.data["users"][k].id) = IsNum(TheStore.data["users"][k].id)]_vars

\* The request addresses an item of /users with GET, PUT, PATCH or DELETE.
IsItemRequest(req) ==
    /\ req.method \in {"GET", "PUT", "PATCH", "DELETE"}
    /\ Len(req.path) = 2 /\ req.path[1] = "users"

\* C24: GET, PUT, PATCH or DELETE addressed to an item id that is not in
\* the collection is answered 404 and changes nothing: the store is as it
\* was (update and patch create no record), no UUID is drawn, and the
\* instance is still running and listening.
C24_MissingItemIs404 ==
    [][(/\ last'.op = "request" /\ IsItemRequest(last'.req)
        /\ ~StoreHas(TheStore, "users", last'.req.path[2]))
        => /\ last'.out.status = 404
           /\ TheStore' = TheStore /\ srv' = srv /\ uuidCtr' = uuidCtr
           /\ ~StoreHas(TheStore', "users", last'.req.path[2])
           /\ srv'[1].running
           /\ \E l \in 1..Len(listeners') :
                 listeners'[l].state = "listening" /\ listeners'[l].owner = 1]_vars

\* A PATCH to an id the collection never held was answered 404 and the
\* collection still holds exactly its two seed records.
C24_Witness ==
    /\ last.op = "request"
    /\ last.req = Req("PATCH", <<"users", "9">>, [name |-> Str("b")])
    /\ last.out.status = 404 /\ last.out.crud = "patch"
    /\ DOMAIN TheStore.data["users"] = {"u1", "u2"}

(***************************************************************************)
(* recorder.ts.  A Recording is identified by the call that handed it to   *)
(* the recorder and its position in that call's batch.  A call reads the   *)
(* file (listRecordings), appends, trims, and later writes the file; other *)
(* calls may run between its read and its write.                           *)
(***************************************************************************)
MAX_RECORDINGS == 1000

Entry(call, n) == [call |-> call, n |-> n]
Batch(call, size) == [j \in 1..size |-> Entry(call, j)]

\* list.slice(0, MAX_RECORDINGS): the oldest entries are kept.
SliceHead(list) ==
    IF Len(list) <= MAX_RECORDINGS THEN list ELSE SubSeq(list, 1, MAX_RECORDINGS)
\* list.slice(-MAX_RECORDINGS)
SliceLast(list) ==
    IF Len(list) <= MAX_RECORDINGS THEN list
    ELSE SubSeq(list, Len(list) - MAX_RECORDINGS + 1, Len(list))

\* The content of the recordings file of a server, [] when there is none.
FileOf(files, id) == IF id \in DOMAIN files THEN files[id] ELSE <<>>

\* listRecordings(serverId): the parsed file, and [] when the file is
\* missing or does not parse, which a read that runs while another call is
\* writing the same file can meet.
listRecordings(id) ==
    {FileOf(recordings, id)}
    \cup (IF \E c \in recCalls : c.id = id THEN {<<>>} ELSE {})

\* The first half of record() and of importRecordings(): the file is read.
RecorderRead(kind, id, size) ==
    /\ recSeq < MaxRecCalls
    /\ \E existing \in listRecordings(id) :
         recCalls' = recCalls \cup
                       {[kind |-> kind, id |-> id, no |-> recSeq + 1,
                         existing |-> existing, entries |-> Batch(recSeq + 1, size)]}
    /\ recSeq' = recSeq + 1
    /\ last' = Did(kind, NoObj, id, "read")
    /\ UNCHANGED <<srv, nServers, listeners, calls, instances, persisted, uuidCtr,
                   recordings, inflight>>

\* The second half: the merged, trimmed list is written to the file.
RecorderWrite(kind, c) ==
    /\ c \in recCalls /\ c.kind = kind
    /\ recordings' = MapSet(recordings, c.id, SliceLast(c.existing \o c.entries))
    /\ recCalls' = recCalls \ {c}
    /\ last' = Did(kind, NoObj, c.id, "written")
    /\ UNCHANGED <<srv, nServers, listeners, calls, instances, persisted, uuidCtr,
                   recSeq, inflight>>

\* record(serverId, entry)
RecordRead(id) == RecorderRead("record", id, 1)
RecordWrite(c) == RecorderWrite("record", c)
\* importRecordings(serverId, entries)
ImportRead(id, size) == RecorderRead("import", id, size)
ImportWrite(c) == RecorderWrite("import", c)

(***************************************************************************)
(* SpecRec: the recorder of server "a", whose file starts empty, one short *)
(* of the cap or full.  Calls overlap freely.                              *)
(***************************************************************************)
InitFileSizes == {0, MAX_RECORDINGS - 1, MAX_RECORDINGS}
\* Sizes of imported batches: none, two, more than the cap.
ImportSizes == {0, 2, MAX_RECORDINGS + 1}
InitRec ==
    \E size \in InitFileSizes :
        /\ srv = [o \in Objs |-> BlankServer]
        /\ nServers = 0
        /\ listeners = <<>>
        /\ calls = {}
        /\ instances = [i \in {} |-> NoObj]
        /\ persisted = [i \in {} |-> EmptyRecord]
        /\ uuidCtr = 0
        /\ recordings = [i \in {"a"} |-> Batch(0, size)]
        /\ recCalls = {}
        /\ recSeq = 0
        /\ inflight = {}
        /\ last = Did("init", NoObj, NoId, "ok")

NextRec ==
    \/ RecordRead("a")
    \/ \E c \in recCalls : RecordWrite(c)
    \/ \E size \in ImportSizes : ImportRead("a", size)
    \/ \E c \in recCalls : ImportWrite(c)

SpecRec == InitRec /\ [][NextRec]_vars

\* The calls that wrote in this step.
Wrote == recCalls \ recCalls'
\* The most recent min(n, 1000) of n entries, in their order.
MostRecent(all) ==
    LET n == Len(all)
        keep == IF n < MAX_RECORDINGS THEN n ELSE MAX_RECORDINGS
    IN  [j \in 1..keep |-> all[n - keep + j]]

C28_AppendOnly ==
    [][\A c \in Wrote :
          recordings'[c.id] = MostRecent(FileOf(recordings, c.id) \o c.entries)]_vars

(***************************************************************************)
(* server.ts: startServer's watchFile callback.  The routes file is read   *)
(* and parsed and the instance reloaded with its routes and resources; an  *)
(* exception anywhere in the callback is caught and reported.              *)
(***************************************************************************)
\* What the callback finds: a file it cannot read, text that is not JSON,
\* or a parsed RoutesFileConfig.
Unreadable == [kind |-> "unreadable"]
BadJson == [kind |-> "badjson"]
RoutesFile(routes, resources) == [kind |-> "parsed", routes |-> routes, resources |-> resources]

\* r.method of a route entry that is null, and cfg.idField of a resource
\* entry that is null, throw a TypeError.
FirstNull(list) ==
    IF \E k \in 1..Len(list) : list[k] = Null
    THEN CHOOSE k \in 1..Len(list) : list[k] = Null /\ \A j \in 1..(k - 1) : list[j] # Null
    ELSE 0
applyConfigThrows(cfg) == FirstNull(cfg.routes) > 0 \/ FirstNull(cfg.resources) > 0

\* The instance after an applyConfig(cfg) that threw: currentConfig is
\* assigned first; parseRouteConfigs either throws, or its result is
\* assigned and seedResources has seeded the resources in front of the one
\* that throws; `resources` is never assigned.
applyConfigThrown(S, cfg, ctr) ==
    IF FirstNull(cfg.routes) > 0
    THEN [server |-> [S EXCEPT !.currentConfig = cfg], ctr |-> ctr]
    ELSE LET done == SubSeq(cfg.resources, 1, FirstNull(cfg.resources) - 1)
             seeded == seedResources(done, S.store, <<>>, ctr)
         IN  [server |-> [S EXCEPT !.currentConfig = cfg,
                                   !.routes = parseRouteConfigs(cfg.routes),
                                   !.store = seeded.store],
              ctr |-> seeded.ctr]

\* The callback on instance S started from `config`: [server, ctr, ok].
Watched(S, config, file, ctr) ==
    IF file.kind # "parsed" THEN [server |-> S, ctr |-> ctr, ok |-> FALSE]
    ELSE LET cfg == [config EXCEPT !.routes = file.routes, !.resources = file.resources]
         IN  IF applyConfigThrows(cfg)
             THEN LET t == applyConfigThrown(S, cfg, ctr)
                  IN  [server |-> t.server, ctr |-> t.ctr, ok |-> FALSE]
             ELSE LET r == reload(S, cfg, ctr)
                  IN  [server |-> r.server, ctr |-> r.ctr, ok |-> TRUE]

\* The routes file changed: the callback runs on instance o, which
\* startServer created from the config kept under "legacy".
WatchReload(o, file) ==
    /\ srv[o].created
    /\ \E w \in {Watched(srv[o], persisted["legacy"], file, uuidCtr)} :
        /\ srv' = [srv EXCEPT ![o] = w.server]
        /\ uuidCtr' = w.ctr
        /\ last' = [Did("watch", o, NoId, IF w.ok THEN "reloaded" ELSE "failed")
                        EXCEPT !.arg = file.kind]
    /\ UNCHANGED <<nServers, listeners, calls, instances, persisted, Aside>>

(***************************************************************************)
(* SpecWatch: the instance of `quickmock routes.json --watch`, serving     *)
(* requests while the routes file changes.                                 *)
(***************************************************************************)
WatchConfig ==
    [ServerConfig("legacy", 3000) EXCEPT !.resources = <<UsersRes, PostsRes>>]
WatchFiles ==
    {Unreadable, BadJson,
     RoutesFile(<<ByeRoute>>, <<PostsRes>>),
     RoutesFile(<<HelloRoute, ByeRoute>>, <<UsersRes, PostsRes>>),
     RoutesFile(<<ByeRoute>>, <<UsersRes, Null>>),
     RoutesFile(<<ByeRoute, Null>>, <<UsersRes>>)}
WatchRequests ==
    {GetHello, GetUsers, PostUser, DeleteUser, Req("DELETE", <<"posts", "1">>, Undefined)}

InitWatch ==
    \E mk \in {createMockServer(WatchConfig, 0)} :
        /\ srv = [o \in Objs |-> IF o = 1 THEN Up(mk.server, 1) ELSE BlankServer]
        /\ nServers = 1
        /\ listeners = <<Listening(1, WatchConfig.port)>>
        /\ calls = {}
        /\ instances = [i \in {} |-> NoObj]
        /\ persisted = [i \in {"legacy"} |-> WatchConfig]
        /\ uuidCtr = mk.ctr /\ NothingAside
        /\ last = Did("init", NoObj, NoId, "ok")

NextWatch ==
    \/ \E req \in WatchRequests : Request(1, req, 0, 1, TRUE)
    \/ \E file \in WatchFiles : WatchReload(1, file)

SpecWatch == InitWatch /\ [][NextWatch]_vars

\* C26: when a reload fails, because the routes file cannot be read or
\* parsed or because applying the new config throws part-way, the
\* instance's routes, resources, store contents and current config are
\* exactly what they were before the attempt.
C26_FailedReloadLeavesState ==
    [][(last'.op = "watch" /\ last'.result = "failed")
        => /\ srv'[1].routes = srv[1].routes
           /\ srv'[1].resources = srv[1].resources
           /\ srv'[1].store = srv[1].store
           /\ srv'[1].currentConfig = srv[1].currentConfig]_vars

(***************************************************************************)
(* server.ts: the simulated delay.  `await new Promise(r => setTimeout(r,  *)
(* delay))` suspends the handler of one request; the event loop runs the   *)
(* handlers of other requests until the timer fires and the rest of the    *)
(* handler (error draw, response or CRUD) runs on the state of that        *)
(* moment.                                                                 *)
(***************************************************************************)
\* A sleep that holds the event loop of the process until it is over.
SleepBlocks(o) == inflight = {}
\* Can a handler of instance o run now?  The sleep is a timer, not a busy
\* wait: suspended requests keep nothing from running.
SleepYields(o) == TRUE

\* A request is handled from arrival to answer with no other handler in
\* between.
Handle(o, req) == SleepYields(o) /\ Request(o, req, 0, 1, TRUE)

\* A request reaches its delay and is suspended there: nothing is written
\* and nothing is answered yet.
Suspend(o, req) ==
    /\ SleepYields(o)
    /\ srv[o].created /\ Accepting(o)
    /\ [o |-> o, req |-> req] \notin inflight
    /\ handleRequest(View(o), req, 0, 1, TRUE, uuidCtr).delayed
    /\ inflight' = inflight \cup {[o |-> o, req |-> req]}
    /\ last' = [Did("suspended", o, NoId, "ok") EXCEPT !.req = req]
    /\ UNCHANGED <<srv, nServers, listeners, calls, instances, persisted, uuidCtr,
                   recordings, recCalls, recSeq>>

\* A handler that read the collections before its sleep and writes its
\* result over them afterwards: it runs on the records as they were seeded.
ResumeStale(r) ==
    /\ r \in inflight
    /\ \E out \in {handleRequest([View(r.o) EXCEPT !.store = StoreReset(@, 0)],
                                 r.req, 0, 1, TRUE, uuidCtr)} :
        /\ out.ctr <= MaxUuid
        /\ srv' = [srv EXCEPT ![r.o].store = out.store, ![r.o].cursors = out.cursors]
        /\ uuidCtr' = out.ctr
        /\ last' = [Did("request", r.o, NoId, "resumed")
                        EXCEPT !.req = r.req, !.out = Observed(out),
                               !.nth = Nth(out), !.arg = AfterThrow]
    /\ inflight' = inflight \ {r}
    /\ UNCHANGED <<nServers, listeners, calls, instances, persisted,
                   recordings, recCalls, recSeq>>

\* The timer of a suspended request fires and the rest of its handler runs.
Resume(r) ==
    /\ r \in inflight
    /\ \E out \in {handleRequest(View(r.o), r.req, 0, 1, TRUE, uuidCtr)} :
        /\ out.ctr <= MaxUuid
        /\ srv' = [srv EXCEPT ![r.o].store = out.store, ![r.o].cursors = out.cursors]
        /\ uuidCtr' = out.ctr
        /\ last' = [Did("request", r.o, NoId, "resumed")
                        EXCEPT !.req = r.req, !.out = Observed(out),
                               !.nth = Nth(out), !.arg = AfterThrow]
    /\ inflight' = inflight \ {r}
    /\ UNCHANGED <<nServers, listeners, calls, instances, persisted,
                   recordings, recCalls, recSeq>>

(***************************************************************************)
(* SpecDelay: one running instance with a delayed route, a route without   *)
(* delay and a resource that is delayed or not, serving requests that      *)
(* overlap.                                                                *)
(***************************************************************************)
GetBye == Req("GET", <<"bye">>, Undefined)
DelayConfig(d) ==
    [ServerConfig("a", 3000) EXCEPT
        !.routes = <<[HelloRoute EXCEPT !.delay = Num(100)], ByeRoute>>,
        !.resources = <<[UsersRes EXCEPT !.delay = d]>>]
DelayRequests == {GetHello, GetBye, GetUsers, PostUser, DeleteUser}

InitDelay ==
    \E d \in {Undefined, Num(100)} :
      \E cfg \in {DelayConfig(d)} :
      \E mk \in {createMockServer(cfg, 0)} :
        /\ srv = [o \in Objs |-> IF o = 1 THEN Up(mk.server, 1) ELSE BlankServer]
        /\ nServers = 1
        /\ listeners = <<Listening(1, cfg.port)>>
        /\ calls = {}
        /\ instances = [i \in {"a"} |-> 1]
        /\ persisted = [i \in {"a"} |-> cfg]
        /\ uuidCtr = mk.ctr /\ NothingAside
        /\ last = Did("init", NoObj, NoId, "ok")

NextDelay ==
    \/ \E req \in DelayRequests : Handle(1, req)
    \/ \E req \in DelayRequests : Suspend(1, req)
    \/ \E r \in inflight : Resume(r)

SpecDelay == InitDelay /\ [][NextDelay]_vars

\* The requests that arrive while others are suspended: to the delayed
\* route, to the route without delay, and a read and a write on the
\* resource.
OtherRequests == {GetHello, GetBye, GetUsers, DeleteUser}

Lit(text) == [lit |-> text]
Tok(key) == [tok |-> key]
IsTok(part) == "tok" \in DOMAIN part

DigitChars == <<"0", "1", "2", "3", "4", "5", "6", "7", "8", "9">>
IsDigit(c) == \E i \in 1..Len(DigitChars) : DigitChars[i] = c
DigitValue(c) == (CHOOSE i \in 1..Len(DigitChars) : DigitChars[i] = c) - 1
\* \d+
IsDigits(t) == Len(t) >= 1 /\ \A i \in 1..Len(t) : IsDigit(t[i])
\* The text after an optional leading minus sign.
Unsigned(t) == IF t # <<>> /\ Head(t) = "-" THEN Tail(t) ELSE t
\* /^-?\d+$/
IsIntegerText(t) == IsDigits(Unsigned(t))
\* /^-?\d+\.\d+$/
IsDecimalText(t) ==
    LET u == Unsigned(t)
    IN  \E i \in 1..Len(u) :
            /\ u[i] = "."
            /\ IsDigits(SubSeq(u, 1, i - 1))
            /\ IsDigits(SubSeq(u, i + 1, Len(u)))
TrueText == <<"t", "r", "u", "e">>
FalseText == <<"f", "a", "l", "s", "e">>
NullText == <<"n", "u", "l", "l">>

\* parseInt(result, 10) of a text that passed the integer test.
RECURSIVE DigitsValue(_)
DigitsValue(t) ==
    IF t = <<>> THEN 0
    ELSE 10 * DigitsValue(SubSeq(t, 1, Len(t) - 1)) + DigitValue(t[Len(t)])
parseInt10(t) ==
    IF Head(t) = "-" THEN 0 - DigitsValue(Tail(t)) ELSE DigitsValue(t)
\* parseFloat(result) of a text that passed the decimal test: the number
\* that text spells.
parseFloat(t) == Num(t)

\* String(n) of an integer.
RECURSIVE NaturalText(_)
NaturalText(n) ==
    IF n < 10 THEN <<DigitChars[n + 1]>>
    ELSE NaturalText(n \div 10) \o <<DigitChars[(n % 10) + 1]>>
IntegerText(n) == IF n < 0 THEN <<"-">> \o NaturalText(0 - n) ELSE NaturalText(n)

\* typeof val === 'object' ? JSON.stringify(val) : String(val).  The text
\* of an object is kept as its two braces.
ValueText(v) ==
    IF IsNum(v) THEN IntegerText(v.num)
    ELSE IF IsBool(v) THEN (IF v.bool THEN TrueText ELSE FalseText)
    ELSE IF IsStr(v) THEN v.str
    ELSE IF v = Null THEN NullText
    ELSE <<"{", "}">>

\* The replacement of one token.  gen holds what each faker function
\* returns on this call; a name outside gen is not a faker function.  A
\* token that resolves to nothing is left as it is.
TokenText(key, ctx, gen) ==
    IF Len(key) = 2 /\ key[1] = "faker" /\ key[2] \in DOMAIN gen
    THEN ValueText(gen[key[2]])
    ELSE LET val == resolve(ctx, key)
         IN  IF val # Undefined THEN ValueText(val)
             ELSE <<"{{">> \o key \o <<"}}">>

\* processString(str, ctx): every token replaced, literal text kept.
RECURSIVE processParts(_, _, _)
processParts(parts, ctx, gen) ==
    IF parts = <<>> THEN <<>>
    ELSE (IF IsTok(Head(parts)) THEN TokenText(Head(parts).tok, ctx, gen)
          ELSE Head(parts).lit)
         \o processParts(Tail(parts), ctx, gen)

\* The coercion of processTemplate: it looks at the processed text alone.
CoerceText(result) ==
    IF result = TrueText THEN Bool(TRUE)
    ELSE IF result = FalseText THEN Bool(FALSE)
    ELSE IF IsIntegerText(result) THEN Num(parseInt10(result))
    ELSE IF IsDecimalText(result) THEN parseFloat(result)
    ELSE Str(result)
\* processTemplate(data, ctx) of a string leaf.
processLeaf(parts, ctx, gen) == CoerceText(processParts(parts, ctx, gen))

(***************************************************************************)
(* SpecTemplate: processTemplate applied to one string leaf after another, *)
(* under contexts and faker results drawn from small sets.                 *)
(***************************************************************************)
FakerNumber == Tok(<<"faker", "number">>)
FakerBoolean == Tok(<<"faker", "boolean">>)
ParamsId == Tok(<<"params", "id">>)
BodyN == Tok(<<"body", "n">>)
TemplateLeaves ==
    {<<FakerNumber>>, <<FakerBoolean>>, <<ParamsId>>, <<BodyN>>,
     <<Tok(<<"faker", "nope">>)>>,
     <<Lit(<<"4", "2">>)>>, <<Lit(<<"i", "d">>)>>,
     <<Lit(<<"1">>), ParamsId>>, <<Lit(<<"i", "d", "-">>), ParamsId>>,
     <<ParamsId, Lit(<<".", "5">>)>>, <<ParamsId, BodyN>>,
     <<Lit(<<"t", "r">>), BodyN>>}
TemplateParams == {[id |-> <<"7">>], [id |-> <<"x">>], [id |-> <<"-", "3">>]}
TemplateBodies ==
    {Null, [n |-> Num(3)], [n |-> Str(<<"u", "e">>)], [n |-> Bool(TRUE)]}
FakerResults ==
    {[number |-> Num(n), boolean |-> Bool(b)] : n \in {7, 4210}, b \in BOOLEAN}

Render(parts, params, body, gen) ==
    LET req == [NoReq EXCEPT !.method = "POST", !.body = body]
        ctx == TemplateContext(params, req)
    IN  /\ last' = [Did("render", NoObj, NoId, "ok") EXCEPT
                        !.arg = parts, !.req = req,
                        !.out = [NoOutcome EXCEPT
                                    !.params = params,
                                    !.body = processLeaf(parts, ctx, gen)]]
        /\ UNCHANGED <<srv, nServers, listeners, calls, instances, persisted,
                       uuidCtr, Aside>>

InitTemplate ==
    /\ srv = [o \in Objs |-> BlankServer]
    /\ nServers = 0
    /\ listeners = <<>>
    /\ calls = {}
    /\ instances = [i \in {} |-> NoObj]
    /\ persisted = [i \in {} |-> EmptyRecord]
    /\ uuidCtr = 0
    /\ NothingAside
    /\ last = Did("init", NoObj, NoId, "ok")

NextTemplate ==
    \E parts \in TemplateLeaves, params \in TemplateParams,
       body \in TemplateBodies, gen \in FakerResults :
        Render(parts, params, body, gen)

SpecTemplate == InitTemplate /\ [][NextTemplate]_vars

\* Is the leaf exactly one token, with no literal text around it?
SingleToken(parts) == Len(parts) = 1 /\ IsTok(parts[1])
HasToken(parts) == \E i \in 1..Len(parts) : IsTok(parts[i])

\* C30: processTemplate turns a string leaf into a number or a boolean only
\* when the whole string is a single token whose resolved text is a bare
\* integer, decimal or true/false, so a leaf that is exactly
\* {{faker.number}} becomes a number; a string of several tokens, or of a
\* token with literal text around it, always stays a string.
C30_OnlySingleTokenCoerced ==
    last.op = "render" =>
        /\ ~IsStr(last.out.body) => SingleToken(last.arg)
        /\ (HasToken(last.arg) /\ ~SingleToken(last.arg)) => IsStr(last.out.body)
        /\ last.arg = <<FakerNumber>> => IsNum(last.out.body)

(***************************************************************************)
(* server.ts: parseBody(req).  The raw body is the text the client sent,   *)
(* a sequence of characters; JSON.parse either gives its value or throws.  *)
(***************************************************************************)
NameZText == <<"{", "\"", "n", "a", "m", "e", "\"", ":", "\"", "z", "\"", "}">>
\* The object texts the model's clients send, with the objects they spell.
ObjectTexts == {<<"{", "}">>, NameZText}
ObjectOf(raw) == IF raw = NameZText THEN [name |-> Str("z")] ELSE EmptyRecord
\* A JSON number has no leading zero.
IsJsonInteger(raw) ==
    /\ IsIntegerText(raw)
    /\ Len(Unsigned(raw)) = 1 \/ Head(Unsigned(raw)) # "0"
\* Does JSON.parse(raw) return rather than throw?
JsonParses(raw) ==
    \/ raw \in ObjectTexts
    \/ raw \in {TrueText, FalseText, NullText}
    \/ IsJsonInteger(raw)
JsonParse(raw) ==
    IF raw \in ObjectTexts THEN ObjectOf(raw)
    ELSE IF raw = TrueText THEN Bool(TRUE)
    ELSE IF raw = FalseText THEN Bool(FALSE)
    ELSE IF raw = NullText THEN Null
    ELSE Num(parseInt10(raw))
\* try { resolve(JSON.parse(raw)) } catch { resolve(raw || null) }
parseBody(raw) ==
    IF JsonParses(raw) THEN JsonParse(raw)
    ELSE IF raw = <<>> THEN Null
    ELSE Str(raw)

(***************************************************************************)
(* SpecBody: one running instance with a POST route and a resource,        *)
(* receiving requests whose raw bodies are JSON or not.                    *)
(***************************************************************************)
EchoRoute == RouteConfig("post", <<"echo">>, Str("ok"))
BodyConfig ==
    [ServerConfig("a", 3000) EXCEPT
        !.routes = <<EchoRoute>>,
        !.resources = <<UsersRes>>]
RawBodies ==
    {<<>>, <<"a", "b", "c">>, <<"{", "n", "a", "m", "e", ":">>, <<"0", "7">>,
     <<"{", "}">>, NameZText, <<"5">>, NullText}
BodyTargets ==
    {[method |-> "POST", path |-> <<"echo">>],
     [method |-> "POST", path |-> <<"users">>],
     [method |-> "PUT", path |-> <<"users", "1">>],
     [method |-> "PATCH", path |-> <<"users", "1">>]}

\* A request arrives with the raw body and is handled.
Receive(o, method, path, raw) ==
    RequestWithin(o, Req(method, path, parseBody(raw)), 0, 1, TRUE, MaxStoreUuid)

InitBody ==
    \E cfg \in {BodyConfig} :
    \E mk \in {createMockServer(cfg, 0)} :
        /\ srv = [o \in Objs |-> IF o = 1 THEN Up(mk.server, 1) ELSE BlankServer]
        /\ nServers = 1
        /\ listeners = <<Listening(1, cfg.port)>>
        /\ calls = {}
        /\ instances = [i \in {"a"} |-> 1]
        /\ persisted = [i \in {"a"} |-> cfg]
        /\ uuidCtr = mk.ctr /\ NothingAside
        /\ last = Did("init", NoObj, NoId, "ok")

NextBody ==
    \E t \in BodyTargets, raw \in RawBodies : Receive(1, t.method, t.path, raw)

SpecBody == InitBody /\ [][NextBody]_vars

\* The raw bodies JSON.parse rejects.  No raw body of the model is a JSON
\* string, so a string body is always the outcome of such a text.
Unparseable == {raw \in RawBodies : ~JsonParses(raw)}
BodyWasUnparseable ==
    /\ last.op = "request"
    /\ \E raw \in Unparseable : last.req.body = parseBody(raw)

\* C29: a request whose body is not parseable as JSON is treated as having
\* a null body: the template context's body is null, resource create,
\* update and patch use an empty object, and the request goes on to its
\* normal response instead of being aborted.
C29_UnparseableBodyIsNull ==
    BodyWasUnparseable =>
        /\ TemplateContext(last.out.params, last.req).body = Null
        /\ Incoming(last.req.body) = EmptyRecord
        /\ last.out.branch # "throw"
        /\ last.out.status \in {200, 201, 404}

(***************************************************************************)
(* SpecOverlap: the two objects of SpecLife, driven by start() and stop()  *)
(* calls that are not awaited: a call may be made while another call on    *)
(* the same object is in progress.                                         *)
(***************************************************************************)
NextOverlap ==
    \/ \E o \in {1, 2} : StartCall(o)
    \/ \E c \in calls : StartListening(c)
    \/ \E c \in calls : StartFailed(c)
    \/ \E o \in {1, 2} : StopCall(o)
    \/ \E c \in calls : StopClosed(c)

SpecOverlap == InitLife /\ [][NextOverlap]_vars

\* C31: whenever an instance has running = false and no start() or stop()
\* of it is in progress, no listener it created is still bound, whatever
\* the interleaving of its start() and stop() calls was.
C31_StoppedIsUnbound ==
    \A o \in Objs :
        (srv[o].created /\ ~srv[o].running /\ Idle(o)) => ~Accepting(o)

(***************************************************************************)
(* SpecMgrOverlap: the manager of SpecMgr when the dashboard does not wait *)
(* for one call to finish before it makes the next one for the same id;    *)
(* the calls are startInstance and stopInstance for server "a".            *)
(***************************************************************************)
OverlapIds == {"a"}
NextMgrOverlap ==
    \/ \E id \in OverlapIds : StartInstance(id)
    \/ \E c \in calls : LoadConfig(c)
    \/ \E c \in calls : StartListening(c)
    \/ \E c \in calls : StartFailed(c)
    \/ \E id \in OverlapIds : StopInstance(id, FALSE)
    \/ \E c \in calls : StopClosed(c)

SpecMgrOverlap == InitMgr /\ [][NextMgrOverlap]_vars

\* A stopInstance or deleteInstance of id awaits its close callback.
Stopping(id) == \E c \in calls : c.op = "stop" /\ c.id = id
\* startInstance(id) has just resolved with the registered instance.
StartResolved(id) ==
    last.op = "startInstance" /\ last.id = id /\ last.result = "existing"

\* C32: a startInstance(id) issued while a stopInstance(id) is in progress
\* does not resolve successfully with the server left stopped and
\* unregistered: when the stop completes after the start has resolved, and
\* no call for id is left, an instance for id is registered and running.
C32_StartDuringStop ==
    [][\A id \in OverlapIds :
          (StartResolved(id) /\ Stopping(id)
             /\ last'.op = "stopped" /\ last'.id = id /\ ~Busy(id)')
          => (id \in DOMAIN instances' /\ srv'[instances'[id]].running)]_vars

(***************************************************************************)
(* SpecPort: the manager of SpecMgr with the dashboard's PATCH of a        *)
(* server, which may change the port of the saved config and reloads the   *)
(* running instance with it.                                               *)
(***************************************************************************)
PortPatches == {[port |-> 3001]}
PortIds == {"a", "b"}

NextPort ==
    \/ \E id \in PortIds : ~Busy(id) /\ StartInstance(id)
    \/ \E c \in calls : LoadConfig(c)
    \/ \E c \in calls : StartListening(c)
    \/ \E c \in calls : StartFailed(c)
    \/ \E id \in PortIds : ~Busy(id) /\ StopInstance(id, FALSE)
    \/ \E c \in calls : StopClosed(c)
    \/ \E incoming \in PortPatches : ~Busy("a") /\ PatchServer("a", incoming)

SpecPort == InitMgr /\ [][NextPort]_vars

\* The port the listener of a running object is bound to.
BoundPorts(o) ==
    {listeners[l].port : l \in {k \in 1..Len(listeners) :
                                   /\ listeners[k].owner = o
                                   /\ listeners[k].state = "listening"}}

\* C33: for every running instance the port reported by instance.port,
\* which the port-conflict check of startInstance compares against, is the
\* port its listener is bound to, after any sequence of starts, reloads
\* (also with a config of another port) and stops.
C33_PortIsBoundPort ==
    \A id \in DOMAIN instances :
        srv[instances[id]].running
        => BoundPorts(instances[id]) = {PortOf(srv[instances[id]])}

(***************************************************************************)
(* SpecRestart: server "a", whose config holds the profile "night", is     *)
(* running.  The dashboard patches an override, activates the profile,     *)
(* patches the config (which reloads a running instance) and stops and     *)
(* starts the server through the manager, each call awaited and the        *)
(* server stopped once; whichever object listens serves requests.          *)
(***************************************************************************)
RestartConfig ==
    [ServerConfig("a", 3000) EXCEPT !.profiles = [n \in {"night"} |-> NightProfile]]
RestartPatches == {[routes |-> <<HelloRoute, ByeRoute>>]}
RestartRequests == {PostUser, DeleteUser}

InitRestart ==
    \E cfg \in {RestartConfig} :
    \E mk \in {createMockServer(cfg, 0)} :
        /\ srv = [o \in Objs |-> IF o = 1 THEN Up(mk.server, 1) ELSE BlankServer]
        /\ nServers = 1
        /\ listeners = <<Listening(1, cfg.port)>>
        /\ calls = {}
        /\ instances = [i \in {"a"} |-> 1]
        /\ persisted = [i \in {"a"} |-> cfg]
        /\ uuidCtr = mk.ctr /\ NothingAside
        /\ last = Did("init", NoObj, NoId, "ok")

\* The instance registered for "a" is the one the model starts with.
FirstRuns == "a" \in DOMAIN instances /\ instances["a"] = 1

NextRestart ==
    \/ ~Busy("a") /\ PatchRouteOverride("a", 0, [delay |-> Num(5)])
    \/ ~Busy("a") /\ ActivateProfile("a", "night")
    \/ \E incoming \in RestartPatches : ~Busy("a") /\ PatchServer("a", incoming)
    \/ \E o \in Objs, req \in RestartRequests : Request(o, req, 0, 1, TRUE)
    \/ ~Busy("a") /\ FirstRuns /\ StopInstance("a", FALSE)
    \/ \E c \in calls : StopClosed(c)
    \/ ~Busy("a") /\ StartInstance("a")
    \/ \E c \in calls : LoadConfig(c)
    \/ \E c \in calls : StartListening(c)

SpecRestart == InitRestart /\ [][NextRestart]_vars

\* startInstance(id) has just registered the instance it started.
Restarted == last.op = "started" /\ last.result = "ok" /\ last.id \in DOMAIN persisted

\* C34: stopInstance(id) followed by startInstance(id) yields a new
\* instance built from the persisted config: it is the object created
\* last, no older object runs, its override maps are empty and its store
\* holds the fresh seed of every resource of the config, so the overrides
\* and CRUD changes made before the stop are not in effect.
C34_RestartIsFresh ==
    Restarted =>
        LET S == srv[instances[last.id]]
            cfg == persisted[last.id]
        IN  /\ instances[last.id] = nServers
            /\ \A o \in 1..(nServers - 1) : ~srv[o].running
            /\ S.running /\ S.currentConfig = cfg
            /\ S.routeOverrides = NoOverrides
            /\ S.resourceOverrides = NoOverrides
            /\ DOMAIN S.store.data = {cfg.resources[i].name : i \in 1..Len(cfg.resources)}
            /\ \A i \in 1..Len(cfg.resources) :
                  S.store.data[cfg.resources[i].name] = FreshCollection(cfg.resources[i])

\* Server "a" runs again as object 2, clean, while object 1, stopped, still
\* has the override and the record that were made before the stop.
C34_Witness ==
    /\ Restarted /\ last.id = "a" /\ instances["a"] = 2
    /\ Overridden(srv[1]) /\ Modified(srv[1]) /\ ~srv[1].running
    /\ ~Overridden(srv[2]) /\ ~Modified(srv[2])

\* C35: whenever the persisted activeProfile of a server is P and its
\* instance is running, every route index in P.disabledRoutes and every
\* resource name in P.disabledResources is disabled in the live override
\* maps of the instance, also when P was activated while the server was
\* stopped and after a reload of the running instance.
C35_ActiveProfileIsLive ==
    \A id \in DOMAIN persisted :
        (persisted[id].activeProfile # Undefined /\ LiveInstance(id))
        => LET P == persisted[id].profiles[persisted[id].activeProfile.str]
               S == srv[instances[id]]
           IN  /\ \A idx \in Range(P.disabledRoutes) :
                     idx \in DOMAIN S.routeOverrides /\ Disabled(S.routeOverrides[idx])
               /\ \A name \in Range(P.disabledResources) :
                     /\ name \in DOMAIN S.resourceOverrides
                     /\ Disabled(S.resourceOverrides[name])

(***************************************************************************)
(* SpecShrink: one running instance with the resources users and posts.    *)
(* The dashboard patches the list of resources, which reloads the          *)
(* instance, and requests create records and reset the store.              *)
(***************************************************************************)
ShrinkConfig == [ServerConfig("a", 3000) EXCEPT !.resources = <<UsersRes, PostsRes>>]
ShrinkPatches ==
    {[resources |-> <<UsersRes>>], [resources |-> <<PostsRes>>],
     [resources |-> <<UsersRes, PostsRes>>]}
GetPosts == Req("GET", <<"posts">>, Undefined)
PostPost == Req("POST", <<"posts">>, [id |-> Num(2), title |-> Str("n")])
ShrinkRequests == {PostUser, PostAnon, PatchUser, DeleteUser, PostPost, GetPosts, ResetReq}

InitShrink ==
    \E cfg \in {ShrinkConfig} :
    \E mk \in {createMockServer(cfg, 0)} :
        /\ srv = [o \in Objs |-> IF o = 1 THEN Up(mk.server, 1) ELSE BlankServer]
        /\ nServers = 1
        /\ listeners = <<Listening(1, cfg.port)>>
        /\ calls = {}
        /\ instances = [i \in {"a"} |-> 1]
        /\ persisted = [i \in {"a"} |-> cfg]
        /\ uuidCtr = mk.ctr /\ NothingAside
        /\ last = Did("init", NoObj, NoId, "ok")

NextShrink ==
    \/ \E incoming \in ShrinkPatches : PatchServer("a", incoming)
    \/ \E req \in ShrinkRequests : Request(1, req, 0, 1, TRUE)

SpecShrink == InitShrink /\ [][NextShrink]_vars

\* store.collections()
Collections(st) == DOMAIN st.data
ResourceNames(S) == {S.currentConfig.resources[i].name :
                        i \in 1..Len(S.currentConfig.resources)}

\* C36: after reload(newConfig) the collections of the store are exactly
\* the resources of newConfig: a resource removed from the config has no
\* collection any more, and a later POST /__reset does not bring it back.
C36_CollectionsAreResources ==
    \A o \in Objs :
        srv[o].created => Collections(srv[o].store) = ResourceNames(srv[o])

(***************************************************************************)
(* SpecSerial: one running instance whose resource users is delayed,       *)
(* serving reads, writes and resets that overlap: a request may be         *)
(* suspended in its delay while others are handled.                        *)
(***************************************************************************)
GetUser == Req("GET", <<"users", "1">>, Undefined)
PutUser == Req("PUT", <<"users", "1">>, [name |-> Str("p")])
SerialConfig ==
    [ServerConfig("a", 3000) EXCEPT !.resources = <<[UsersRes EXCEPT !.delay = Num(100)]>>]
SerialRequests == {GetUsers, GetUser, PostUser, PutUser, PatchUser, DeleteUser, ResetReq}

InitSerial ==
    \E cfg \in {SerialConfig} :
    \E mk \in {createMockServer(cfg, 0)} :
        /\ srv = [o \in Objs |-> IF o = 1 THEN Up(mk.server, 1) ELSE BlankServer]
        /\ nServers = 1
        /\ listeners = <<Listening(1, cfg.port)>>
        /\ calls = {}
        /\ instances = [i \in {"a"} |-> 1]
        /\ persisted = [i \in {"a"} |-> cfg]
        /\ uuidCtr = mk.ctr /\ NothingAside
        /\ last = Did("init", NoObj, NoId, "ok")

NextSerial ==
    \/ \E req \in SerialRequests : Handle(1, req)
    \/ \E req \in SerialRequests : Suspend(1, req)
    \/ \E r \in inflight : Resume(r)

SpecSerial == InitSerial /\ [][NextSerial]_vars

\* The store of instance o after the CRUD operation or reset of req has run,
\* whole, on the store as it is now.
Dispatched(o, req) == handleRequest(srv[o], req, 0, 1, TRUE, uuidCtr).store

FrameConfig(e) ==
    [ServerConfig("a", 3000) EXCEPT !.resources = <<[UsersRes EXCEPT !.error = e]>>]
FrameOverrides == {[disabled |-> Bool(TRUE)], [disabled |-> Bool(FALSE)], [error |-> Num(100)]}
FrameRequests == {GetUsers, PostUser, PutUser, PatchUser, DeleteUser}

InitFrame ==
    \E e \in StaticErrors :
    \E cfg \in {FrameConfig(e)} :
    \E mk \in {createMockServer(cfg, 0)} :
        /\ srv = [o \in Objs |-> IF o = 1 THEN Up(mk.server, 1) ELSE BlankServer]
        /\ nServers = 1
        /\ listeners = <<Listening(1, cfg.port)>>
        /\ calls = {}
        /\ instances = [i \in {"a"} |-> 1]
        /\ persisted = [i \in {"a"} |-> cfg]
        /\ uuidCtr = mk.ctr /\ NothingAside
        /\ last = Did("init", NoObj, NoId, "ok")

NextFrame ==
    \/ \E body \in FrameOverrides : PatchResourceOverride("a", "users", body)
    \/ \E req \in FrameRequests, rnd \in Rnds : Request(1, req, rnd, 1, TRUE)

SpecFrame == InitFrame /\ [][NextFrame]_vars

\* The request just answered went to the resource and was refused: by the
\* 503 of a disabled resource or by an injected error.
RefusedResource ==
    /\ last.op = "request" /\ last.req.path[1] = "users"
    /\ last.out.branch \in {"disabled", "error"}

\* C38: a resource request answered by the disabled 503 or by an injected
\* error leaves the store unchanged: no record is created, replaced,
\* patched or removed, whatever the method of the request.
C38_RefusedLeavesStore ==
    [][RefusedResource' => srv'[last'.o].store = srv[last'.o].store]_vars

\* A DELETE of record 1 was answered by an injected error and record 1,
\* patched earlier, is still there.
C38_Witness ==
    /\ RefusedResource /\ last.req = DeleteUser
    /\ last.out.branch = "error" /\ last.out.status = 500
    /\ StoreHas(srv[1].store, "users", "1")
    /\ StoreGet(srv[1].store, "users", "1").name = Str("b")

(***************************************************************************)
(* SpecKeys: one running instance whose records are created, replaced,     *)
(* patched, removed and reset, with ids that are numbers, strings and      *)
(* strings that spell a number.                                            *)
(***************************************************************************)
PostPadded == Req("POST", <<"users">>, [id |-> Str("01"), name |-> Str("y")])
PutPadded == Req("PUT", <<"users", "01">>, [id |-> Num(5), name |-> Str("p")])
PatchPadded == Req("PATCH", <<"users", "01">>, [name |-> Str("b")])
PostOne == Req("POST", <<"users">>, [id |-> Num(1), name |-> Str("z")])
KeyRequests ==
    {PostUser, PostOne, PostAnon, PostPadded, PutUser, PutPadded, PatchUser, PatchPadded,
     DeleteUser, ResetReq}

NextKeys == \E req \in KeyRequests : RequestWithin(1, req, 0, 1, TRUE, MaxStoreUuid)

SpecKeys == InitShrink /\ [][NextKeys]_vars

\* The ids of the records of a collection, stringified, by key.
KeyedIds(st, name) ==
    [k \in DOMAIN st.data[name] |-> StringOf(st.data[name][k][st.meta[name].idField])]

\* C39: in every reachable store state each record of a collection is
\* stored under the key String(record[idField]), so get with the
\* stringified id of a listed record returns that record, and no two
\* records of a collection have the same stringified id.
C39_KeyIsStringOfId ==
    \A o \in Objs : \A name \in DOMAIN srv[o].store.data :
        LET ids == KeyedIds(srv[o].store, name)
        IN  /\ \A k \in DOMAIN ids : ids[k] = k
            /\ \A k1, k2 \in DOMAIN ids : ids[k1] = ids[k2] => k1 = k2

\* The request just answered was a create on users: POST answered 201.
Created ==
    /\ last.op = "request" /\ last.out.crud = "create" /\ last.out.status = 201
    /\ last.req.path = <<"users">>

\* C40: a create whose body carries an id equal to the id of an existing
\* record replaces that record, answers 201 and leaves total unchanged;
\* every create changes total by +1 or 0, adds at most one record and
\* alters no other record.
C40_CreateReplacesEqualId ==
    [][Created' =>
        LET before == srv[last'.o].store.data["users"]
            after == srv'[last'.o].store.data["users"]
            idField == srv[last'.o].store.meta["users"].idField
            body == Incoming(last'.req.body)
            same == IF NeedsUuid(body, idField) THEN {}
                    ELSE {k \in DOMAIN before : before[k][idField] = body[idField]}
            fresh == (DOMAIN after) \ (DOMAIN before)
        IN  /\ same # {} => /\ Cardinality(DOMAIN after) = Cardinality(DOMAIN before)
                            /\ \A k \in same : k = StringOf(body[idField])
            /\ Cardinality(DOMAIN after) - Cardinality(DOMAIN before) \in {0, 1}
            /\ Cardinality(fresh) <= 1
            /\ \A k \in DOMAIN before :
                  (k \in DOMAIN after /\ after[k] = before[k])
                  \/ (fresh = {} /\ ~NeedsUuid(body, idField)
                        /\ k = StringOf(body[idField]))]_vars

====
